---- MODULE Spec2Model ----
(***************************************************************************)
(* State-machine model of the LLM communication tracker                    *)
(* (src/shared/llm_communication_tracker.py, class LLMCommunicationTracker *)
(* and its callers).                                                       *)
(*                                                                         *)
(* start_communication, add_message and complete_communication take       *)
(* self._lock around their reads and writes of the store, so one such call *)
(* is one atomic action in Spec, SessionSpec and CostSpec; SharedSpec,     *)
(* TornSpec and AdapterSpec take the locked sections apart, with the lock  *)
(* as a variable.  get_communication_stats takes no lock.  Identifiers     *)
(* produced by                                                             *)
(* uuid4() are modelled as fresh values drawn from counters.  Money is     *)
(* kept in integer units of 1e-7 dollar (price per 1000 tokens in units of *)
(* 1e-4 dollar times a token count), so no rounding enters the model.      *)
(* Wall-clock values are abstracted: session_end is None or Some("set").   *)
(***************************************************************************)
EXTENDS Integers, Sequences, FiniteSets, TLC

VARIABLES
    communications,   \* self.communications : comm_id -> LLMCommunication
    active_sessions,  \* self.active_sessions: agent_id -> comm_id
    webhook_url,      \* self.webhook_url (constructor argument)
    executor,         \* tasks submitted to self.executor and not yet run
    posted,           \* per comm id, how many times a worker ran the POST for it
    next_id,          \* number of comm ids generated so far
    calls,            \* number of tracker calls made so far
    last_call,        \* the most recent call: operation, argument, result
    pc,               \* session threads: position of each thread
    my_comm,          \* session threads: the id start returned to the thread
    sent,             \* session threads: the messages the thread has added
    local,            \* threads: the local variables of the call in progress
    lock,             \* self._lock: None, or Some(thread) that holds it
    stats_read        \* what an unlocked get_communication_stats last returned

tracker_vars == <<communications, active_sessions, webhook_url, executor, posted,
                  next_id, calls, last_call>>
thread_vars == <<pc, my_comm, sent, local, lock, stats_read>>
vars == <<communications, active_sessions, webhook_url, executor, posted,
          next_id, calls, last_call, pc, my_comm, sent, local, lock, stats_read>>

\* Optional[...] values: None is the empty tuple, a set value v is <<v>>.
None == <<>>
Some(v) == <<v>>

\* ---------------------------------------------------------------- bounds
MaxComms == 2
MaxCalls == 5
MaxSessionMsgs == 2
MaxFragments == 2
MaxReadCalls == 6
MaxSeconds == 1
MaxWrapped == 1

\* ---------------------------------------------------------------- inputs
Agents == {"a1", "a2"}

\* Arguments of start_communication that the model draws from.
StartInputs ==
    { [agent_id |-> "a1", agent_name |-> "Dr. A1", framework |-> "autogen",
       provider |-> "openai", model |-> "gpt-4"],
      [agent_id |-> "a2", agent_name |-> "Dr. A2", framework |-> "crewai",
       provider |-> "openai", model |-> "made-up-model"] }

\* Arguments of add_message that the model draws from (content is filled in
\* by the caller).
MsgInputs ==
    { [role |-> "user",      tokens |-> Some(1), function_call |-> None, tool_calls |-> <<>>],
      [role |-> "system",    tokens |-> Some(2),    function_call |-> None, tool_calls |-> <<>>],
      [role |-> "assistant", tokens |-> Some(3), function_call |-> None, tool_calls |-> <<>>],
      [role |-> "function",  tokens |-> Some(1), function_call |-> Some("f"), tool_calls |-> <<>>],
      [role |-> "assistant", tokens |-> None,    function_call |-> None, tool_calls |-> <<"t">>] }

\* Arguments of complete_communication that the model draws from.
CompleteInputs ==
    { [final_response |-> Some("r1"), response_time_ms |-> 10, confidence_score |-> None,
       error_message |-> None, error_type |-> None, error_code |-> None,
       retry_count |-> 0],
      [final_response |-> Some("r2"), response_time_ms |-> 25, confidence_score |-> None,
       error_message |-> Some("quota"), error_type |-> Some("quota_exceeded"),
       error_code |-> Some(429),
       retry_count |-> 1] }

\* ------------------------------------------------------------ data model
Frameworks == {"autogen", "crewai", "custom"}

\* LLMMessage(id, timestamp, role, content, tokens, ...)
LLMMessage(id, content, m) ==
    [id |-> id, role |-> m.role, content |-> content, tokens |-> m.tokens]

\* LLMCommunication(...) with the dataclass defaults and __post_init__.
\* framework and provider hold members of the Enum classes AgentFramework
\* and LLMProvider, written here by their values.  session_start is the
\* clock reading taken in __post_init__; calls made one after another read
\* increasing values, for which the model takes the running number of the
\* start call.
LLMCommunication(id, inp) ==
    [id |-> id, agent_id |-> inp.agent_id, agent_name |-> inp.agent_name,
     framework |-> inp.framework,
     provider |-> inp.provider, model |-> inp.model,
     session_start |-> id,
     session_end |-> None,
     messages |-> <<>>,
     total_input_tokens |-> 0, total_output_tokens |-> 0, total_tokens |-> 0,
     cost_estimate |-> 0, response_time_ms |-> 0,
     final_response |-> None, confidence_score |-> None,
     function_calls_made |-> <<>>, tools_used |-> <<>>,
     error_message |-> None, error_type |-> None, error_code |-> None,
     retry_count |-> 0]

\* self.pricing, per 1000 tokens, in units of 1e-4 dollar.
pricing ==
    [p \in {"openai"} |->
        [m \in {"gpt-4", "gpt-4-turbo", "gpt-3.5-turbo"} |->
            CASE m = "gpt-4"         -> [input |-> 300, output |-> 600]
              [] m = "gpt-4-turbo"   -> [input |-> 100, output |-> 300]
              [] m = "gpt-3.5-turbo" -> [input |-> 15,  output |-> 20]]]

\* Fault variant of CalculateCost: input tokens are charged at the output
\* price and output tokens at the input price.
CalculateCost_SwappedPrices(comm) ==
    IF comm.provider \notin DOMAIN pricing THEN 0
    ELSE IF comm.model \notin DOMAIN pricing[comm.provider] THEN 0
    ELSE comm.total_input_tokens * pricing[comm.provider][comm.model].output
         + comm.total_output_tokens * pricing[comm.provider][comm.model].input

\* _calculate_cost(comm), in units of 1e-7 dollar.
CalculateCost(comm) ==
    IF comm.provider \notin DOMAIN pricing THEN 0
    ELSE IF comm.model \notin DOMAIN pricing[comm.provider] THEN 0
    ELSE comm.total_input_tokens * pricing[comm.provider][comm.model].input
         + comm.total_output_tokens * pricing[comm.provider][comm.model].output

\* Python truthiness of the tokens argument: None and 0 are false.
Truthy(tokens) == tokens # None /\ tokens[1] # 0

\* ------------------------------------------------------- tracker operations
\* The id a start call generates: comm_<time>_<uuid4 prefix>, a fresh value.
NewCommId == next_id + 1

\* The id an add_message call generates: msg_<time>_<uuid4 prefix>, fresh.
NewMessageId == calls + 1

\* The greatest id of a non-empty set of ids: the last one in dict order,
\* since ids are inserted in increasing order and never re-inserted.
LastOf(S) == CHOOSE x \in S : \A y \in S : y <= x

\* dict with one key deleted / one key set.
Without(f, k) == [x \in DOMAIN f \ {k} |-> f[x]]
With(f, k, v) == [x \in DOMAIN f \cup {k} |-> IF x = k THEN v ELSE f[x]]

\* Fault variant of AddedTo: total_tokens is bumped by every token count
\* instead of being recomputed from the two buckets.
AddedTo_TotalBumped(comm, message, m) ==
    LET tok == IF Truthy(m.tokens) THEN m.tokens[1] ELSE 0
    IN [comm EXCEPT
          !.messages = Append(@, message),
          !.total_input_tokens =
              IF m.role \in {"user", "system"} THEN @ + tok ELSE @,
          !.total_output_tokens =
              IF m.role = "assistant" THEN @ + tok ELSE @,
          !.total_tokens = @ + tok,
          !.function_calls_made =
              IF m.function_call # None THEN Append(@, m.function_call[1]) ELSE @,
          !.tools_used = @ \o m.tool_calls]

\* Fault variant of AddedTo: every message also re-prices the comm, so
\* cost_estimate runs along with the totals.
AddedTo_CostRunning(comm, message, m) ==
    LET tok == IF Truthy(m.tokens) THEN m.tokens[1] ELSE 0
        inp == IF Truthy(m.tokens) /\ m.role \in {"user", "system"}
               THEN comm.total_input_tokens + tok ELSE comm.total_input_tokens
        out == IF Truthy(m.tokens) /\ m.role = "assistant"
               THEN comm.total_output_tokens + tok ELSE comm.total_output_tokens
        c == [comm EXCEPT
                !.messages = Append(@, message),
                !.total_input_tokens = inp,
                !.total_output_tokens = out,
                !.total_tokens = IF Truthy(m.tokens) THEN inp + out ELSE @,
                !.function_calls_made =
                    IF m.function_call # None THEN Append(@, m.function_call[1]) ELSE @,
                !.tools_used = @ \o m.tool_calls]
    IN [c EXCEPT !.cost_estimate = CalculateCost(c)]

\* Fault variant of AddedTo: every role that is not an input role is
\* counted as output (else in place of elif role == "assistant").
AddedTo_ElseOutput(comm, message, m) ==
    LET tok == IF Truthy(m.tokens) THEN m.tokens[1] ELSE 0
        inp == IF m.role \in {"user", "system"}
               THEN comm.total_input_tokens + tok ELSE comm.total_input_tokens
        out == IF m.role \notin {"user", "system"}
               THEN comm.total_output_tokens + tok ELSE comm.total_output_tokens
    IN [comm EXCEPT
          !.messages = Append(@, message),
          !.total_input_tokens = inp,
          !.total_output_tokens = out,
          !.total_tokens = inp + out,
          !.function_calls_made =
              IF m.function_call # None THEN Append(@, m.function_call[1]) ELSE @,
          !.tools_used = @ \o m.tool_calls]

\* add_message, the locked section for a stored comm: append the message,
\* update the token counts, track function calls and tools.
AddedTo(comm, message, m) ==
    LET tok == IF Truthy(m.tokens) THEN m.tokens[1] ELSE 0
        inp == IF Truthy(m.tokens) /\ m.role \in {"user", "system"}
               THEN comm.total_input_tokens + tok ELSE comm.total_input_tokens
        out == IF Truthy(m.tokens) /\ m.role \notin {"user", "system"}
                  /\ m.role = "assistant"
               THEN comm.total_output_tokens + tok ELSE comm.total_output_tokens
    IN [comm EXCEPT
          !.messages = Append(@, message),
          !.total_input_tokens = inp,
          !.total_output_tokens = out,
          !.total_tokens = IF Truthy(m.tokens) THEN inp + out ELSE @,
          !.function_calls_made =
              IF m.function_call # None THEN Append(@, m.function_call[1]) ELSE @,
          !.tools_used = @ \o m.tool_calls]

\* complete_communication, the assignments to a stored non-empty comm.
Finalized(comm, inp) ==
    LET c == [comm EXCEPT
                !.session_end = Some("set"),
                !.final_response = inp.final_response,
                !.response_time_ms = inp.response_time_ms,
                !.confidence_score = inp.confidence_score,
                !.error_message = inp.error_message,
                !.error_type = inp.error_type,
                !.error_code = inp.error_code,
                !.retry_count = inp.retry_count]
    IN [c EXCEPT !.cost_estimate = CalculateCost(c)]

\* start_communication(agent_id, ..., framework, provider, model, ...)
StartCommunication(inp) ==
    /\ communications' = With(communications, NewCommId, LLMCommunication(NewCommId, inp))
    /\ active_sessions' = With(active_sessions, inp.agent_id, NewCommId)
    /\ next_id' = next_id + 1
    /\ calls' = calls + 1
    /\ last_call' = [op |-> "start", comm_id |-> 0, agent_id |-> inp.agent_id,
                     ret |-> Some(NewCommId), raised |-> FALSE]
    /\ UNCHANGED <<webhook_url, executor, posted>>

\* Fault variant of AddMessage: no membership test, so an id that is not in
\* the store raises KeyError and nothing is returned.
AddMessage_NoGuard(comm_id, content, m) ==
    /\ communications' =
         IF comm_id \in DOMAIN communications
         THEN [communications EXCEPT
                 ![comm_id] = AddedTo(@, LLMMessage(NewMessageId, content, m), m)]
         ELSE communications
    /\ calls' = calls + 1
    /\ last_call' = [op |-> "add_message", comm_id |-> comm_id, agent_id |-> "",
                     ret |-> IF comm_id \in DOMAIN communications
                             THEN Some(NewMessageId) ELSE None,
                     raised |-> comm_id \notin DOMAIN communications]
    /\ UNCHANGED <<active_sessions, webhook_url, executor, posted, next_id>>

\* Fault variant of AddMessage: the message goes to the most recently
\* started communication instead of the one named by comm_id.
AddMessage_ToLatest(comm_id, content, m) ==
    /\ communications' =
         IF comm_id \in DOMAIN communications
         THEN [communications EXCEPT
                 ![LastOf(DOMAIN communications)] =
                     AddedTo(@, LLMMessage(NewMessageId, content, m), m)]
         ELSE communications
    /\ calls' = calls + 1
    /\ last_call' = [op |-> "add_message", comm_id |-> comm_id, agent_id |-> "",
                     ret |-> Some(NewMessageId), raised |-> FALSE]
    /\ UNCHANGED <<active_sessions, webhook_url, executor, posted, next_id>>

\* add_message(comm_id, role, content, tokens, function_call, tool_calls)
AddMessage(comm_id, content, m) ==
    /\ communications' =
         IF comm_id \in DOMAIN communications
         THEN [communications EXCEPT
                 ![comm_id] = AddedTo(@, LLMMessage(NewMessageId, content, m), m)]
         ELSE communications
    /\ calls' = calls + 1
    /\ last_call' = [op |-> "add_message", comm_id |-> comm_id, agent_id |-> "",
                     ret |-> Some(NewMessageId), raised |-> FALSE]
    /\ UNCHANGED <<active_sessions, webhook_url, executor, posted, next_id>>

\* Fault variant of FinalizeStored: the webhook is submitted whether or not a
\* URL is configured.
FinalizeStored_AlwaysSubmit(comm_id, inp) ==
    /\ communications' = [communications EXCEPT ![comm_id] = Finalized(@, inp)]
    /\ active_sessions' =
         IF communications[comm_id].agent_id \in DOMAIN active_sessions
         THEN Without(active_sessions, communications[comm_id].agent_id)
         ELSE active_sessions
    /\ executor' = Append(executor, comm_id)

\* The part of complete_communication shared by the variants below: finalize
\* the stored non-empty comm, drop the agent's index entry, submit the webhook.
FinalizeStored(comm_id, inp) ==
    /\ communications' = [communications EXCEPT ![comm_id] = Finalized(@, inp)]
    /\ active_sessions' =
         IF communications[comm_id].agent_id \in DOMAIN active_sessions
         THEN Without(active_sessions, communications[comm_id].agent_id)
         ELSE active_sessions
    /\ executor' = IF webhook_url # None THEN Append(executor, comm_id) ELSE executor

\* Fault variant of CompleteCommunication: no membership test, so an id that
\* is not in the store raises KeyError.
CompleteCommunication_NoGuard(comm_id, inp) ==
    /\ calls' = calls + 1
    /\ last_call' = [op |-> "complete", comm_id |-> comm_id, agent_id |-> "",
                     ret |-> None, raised |-> comm_id \notin DOMAIN communications]
    /\ IF comm_id \notin DOMAIN communications
       THEN UNCHANGED <<communications, active_sessions, executor>>
       ELSE IF communications[comm_id].messages = <<>>
       THEN /\ communications' = Without(communications, comm_id)
            /\ UNCHANGED <<active_sessions, executor>>
       ELSE FinalizeStored(comm_id, inp)
    /\ UNCHANGED <<webhook_url, posted, next_id>>

\* Fault variant of CompleteCommunication: the phantom-run test looks at the
\* token total instead of the message list.
CompleteCommunication_EmptyByTokens(comm_id, inp) ==
    /\ calls' = calls + 1
    /\ last_call' = [op |-> "complete", comm_id |-> comm_id, agent_id |-> "",
                     ret |-> None, raised |-> FALSE]
    /\ IF comm_id \notin DOMAIN communications
       THEN UNCHANGED <<communications, active_sessions, executor>>
       ELSE IF communications[comm_id].total_tokens = 0
       THEN /\ communications' = Without(communications, comm_id)
            /\ UNCHANGED <<active_sessions, executor>>
       ELSE FinalizeStored(comm_id, inp)
    /\ UNCHANGED <<webhook_url, posted, next_id>>

\* Fault variant of CompleteCommunication: the record is looked up through
\* the active-session index, so a session whose index entry was overwritten
\* is no longer finalized.
CompleteCommunication_ViaIndex(comm_id, inp) ==
    /\ calls' = calls + 1
    /\ last_call' = [op |-> "complete", comm_id |-> comm_id, agent_id |-> "",
                     ret |-> None, raised |-> FALSE]
    /\ IF comm_id \notin {active_sessions[a] : a \in DOMAIN active_sessions}
          \/ comm_id \notin DOMAIN communications
       THEN UNCHANGED <<communications, active_sessions, executor>>
       ELSE IF communications[comm_id].messages = <<>>
       THEN /\ communications' = Without(communications, comm_id)
            /\ UNCHANGED <<active_sessions, executor>>
       ELSE FinalizeStored(comm_id, inp)
    /\ UNCHANGED <<webhook_url, posted, next_id>>

\* complete_communication(comm_id, final_response, response_time_ms, ...)
CompleteCommunication(comm_id, inp) ==
    /\ calls' = calls + 1
    /\ last_call' = [op |-> "complete", comm_id |-> comm_id, agent_id |-> "",
                     ret |-> None, raised |-> FALSE]
    /\ IF comm_id \notin DOMAIN communications
       THEN UNCHANGED <<communications, active_sessions, executor>>
       ELSE IF communications[comm_id].messages = <<>>
       THEN /\ communications' = Without(communications, comm_id)
            /\ UNCHANGED <<active_sessions, executor>>
       ELSE FinalizeStored(comm_id, inp)
    /\ UNCHANGED <<webhook_url, posted, next_id>>

\* Fault variant of SendWebhookNotification: a failed POST is submitted to
\* the executor again.
SendWebhookNotification_Retry(outcome) ==
    /\ executor # <<>>
    /\ executor' = IF outcome = "200" THEN Tail(executor)
                   ELSE Append(Tail(executor), Head(executor))
    /\ posted' = With(posted, Head(executor),
                      IF Head(executor) \in DOMAIN posted
                      THEN posted[Head(executor)] + 1 ELSE 1)
    /\ last_call' = [op |-> "webhook", comm_id |-> Head(executor), agent_id |-> "",
                     ret |-> Some(outcome), raised |-> FALSE]
    /\ UNCHANGED <<communications, active_sessions, webhook_url, next_id, calls>>

\* A worker of self.executor runs _send_webhook_notification(comm): the POST
\* returns 200, returns another status, or raises; each outcome is only logged.
SendWebhookNotification(outcome) ==
    /\ executor # <<>>
    /\ executor' = Tail(executor)
    /\ posted' = With(posted, Head(executor),
                      IF Head(executor) \in DOMAIN posted
                      THEN posted[Head(executor)] + 1 ELSE 1)
    /\ last_call' = [op |-> "webhook", comm_id |-> Head(executor), agent_id |-> "",
                     ret |-> Some(outcome), raised |-> FALSE]
    /\ UNCHANGED <<communications, active_sessions, webhook_url, next_id, calls>>

\* An exception is modelled by str(exception) and by its status_code
\* attribute (None: the exception has no such attribute).
UpperCase == "ABCDEFGHIJKLMNOPQRSTUVWXYZ"
LowerCase == "abcdefghijklmnopqrstuvwxyz"

\* str.lower(), character by character.
RECURSIVE Lower(_)
Lower(s) ==
    IF s = "" THEN ""
    ELSE LET ch == SubSeq(s, 1, 1)
             up == {i \in 1..Len(UpperCase) : SubSeq(UpperCase, i, i) = ch}
             lo == IF up = {} THEN ch
                   ELSE LET i == CHOOSE i \in up : TRUE IN SubSeq(LowerCase, i, i)
         IN lo \o Lower(SubSeq(s, 2, Len(s)))

\* needle in s, for strings.
Contains(needle, s) ==
    \E i \in 1..(Len(s) - Len(needle) + 1) : SubSeq(s, i, i + Len(needle) - 1) = needle

\* Fault variant of ParseOpenAIError: the authentication test comes first.
ParseOpenAIError_AuthFirst(exception) ==
    LET error_message == exception.message
        lower == Lower(error_message)
    IN IF Contains("invalid api key", lower) \/ Contains("unauthorized", lower)
          \/ Contains("401", error_message)
       THEN <<error_message, "auth_failed", Some(401)>>
       ELSE IF Contains("insufficient_quota", lower) \/ Contains("quota", lower)
       THEN <<error_message, "quota_exceeded", Some(429)>>
       ELSE IF Contains("rate limit", lower) \/ Contains("429", error_message)
       THEN <<error_message, "rate_limit", Some(429)>>
       ELSE IF Contains("api key specified is not a valid openai format", lower)
       THEN <<error_message, "invalid_key_format", Some(400)>>
       ELSE IF Contains("400", error_message)
       THEN <<error_message, "bad_request", Some(400)>>
       ELSE IF Contains("500", error_message)
       THEN <<error_message, "server_error", Some(500)>>
       ELSE <<error_message, "unknown_error", exception.status_code>>

\* Fault variant of ParseOpenAIError: the message is not lower-cased.
ParseOpenAIError_CaseSensitive(exception) ==
    LET error_message == exception.message
    IN IF Contains("insufficient_quota", error_message) \/ Contains("quota", error_message)
       THEN <<error_message, "quota_exceeded", Some(429)>>
       ELSE IF Contains("rate limit", error_message) \/ Contains("429", error_message)
       THEN <<error_message, "rate_limit", Some(429)>>
       ELSE IF Contains("invalid api key", error_message)
               \/ Contains("unauthorized", error_message)
               \/ Contains("401", error_message)
       THEN <<error_message, "auth_failed", Some(401)>>
       ELSE IF Contains("api key specified is not a valid openai format", error_message)
       THEN <<error_message, "invalid_key_format", Some(400)>>
       ELSE IF Contains("400", error_message)
       THEN <<error_message, "bad_request", Some(400)>>
       ELSE IF Contains("500", error_message)
       THEN <<error_message, "server_error", Some(500)>>
       ELSE <<error_message, "unknown_error", exception.status_code>>

\* parse_openai_error(exception): (error_message, error_type, error_code).
\* error_code starts as the status_code attribute if there is one; every
\* branch of the chain overwrites it.
ParseOpenAIError(exception) ==
    LET error_message == exception.message
        lower == Lower(error_message)
    IN IF Contains("insufficient_quota", lower) \/ Contains("quota", lower)
       THEN <<error_message, "quota_exceeded", Some(429)>>
       ELSE IF Contains("rate limit", lower) \/ Contains("429", error_message)
       THEN <<error_message, "rate_limit", Some(429)>>
       ELSE IF Contains("invalid api key", lower) \/ Contains("unauthorized", lower)
               \/ Contains("401", error_message)
       THEN <<error_message, "auth_failed", Some(401)>>
       ELSE IF Contains("api key specified is not a valid openai format", lower)
       THEN <<error_message, "invalid_key_format", Some(400)>>
       ELSE IF Contains("400", error_message)
       THEN <<error_message, "bad_request", Some(400)>>
       ELSE IF Contains("500", error_message)
       THEN <<error_message, "server_error", Some(500)>>
       ELSE <<error_message, "unknown_error", exception.status_code>>

\* get_communication(comm_id)
GetCommunication(comms, comm_id) ==
    IF comm_id \in DOMAIN comms THEN Some(comms[comm_id]) ELSE None

\* ------------------------------------------------------------- read side
RECURSIVE SumOver(_, _, _)
\* sum(c.<field> for c in ...) over the comms whose ids are in S.
SumOver(comms, S, field) ==
    IF S = {} THEN 0
    ELSE LET c == CHOOSE x \in S : TRUE
         IN comms[c][field] + SumOver(comms, S \ {c}, field)

\* Fault variant of GetStats: total_tokens is summed over every stored comm,
\* open ones included.
GetStats_OverAll(comms, sessions) ==
    LET completed == {c \in DOMAIN comms : comms[c].session_end # None}
        errors == {c \in completed : comms[c].error_message \notin {None, Some("")}}
        TypeOf(c) == IF comms[c].error_type \in {None, Some("")}
                     THEN "unknown" ELSE comms[c].error_type[1]
        OfType(t) == {c \in errors : TypeOf(c) = t}
    IN IF completed = {}
       THEN [total |-> 0, completed |-> 0]
       ELSE [total |-> Cardinality(DOMAIN comms),
             completed |-> Cardinality(completed),
             active |-> Cardinality(DOMAIN sessions),
             errors |-> Cardinality(errors),
             total_tokens |-> SumOver(comms, DOMAIN comms, "total_tokens"),
             total_cost |-> SumOver(comms, completed, "cost_estimate"),
             average_response_time_ms |->
                 SumOver(comms, completed, "response_time_ms") \div Cardinality(completed),
             by_framework |->
                 [f \in Frameworks |->
                    LET fc == {c \in completed : comms[c].framework = f}
                    IN [count |-> Cardinality(fc),
                        tokens |-> SumOver(comms, fc, "total_tokens"),
                        cost |-> SumOver(comms, fc, "cost_estimate")]],
             error_breakdown |->
                 [t \in {TypeOf(c) : c \in errors} |->
                    [count |-> Cardinality(OfType(t)),
                     latest_error |->
                        [message |-> comms[LastOf(OfType(t))].error_message,
                         code |-> comms[LastOf(OfType(t))].error_code,
                         timestamp |-> comms[LastOf(OfType(t))].session_start,
                         agent |-> comms[LastOf(OfType(t))].agent_name]]]]

\* Fault variant of GetStats: no early return when nothing is completed; the
\* full shape is built with zeros.
GetStats_NoEarlyReturn(comms, sessions) ==
    LET completed == {c \in DOMAIN comms : comms[c].session_end # None}
        errors == {c \in completed : comms[c].error_message \notin {None, Some("")}}
        TypeOf(c) == IF comms[c].error_type \in {None, Some("")}
                     THEN "unknown" ELSE comms[c].error_type[1]
        OfType(t) == {c \in errors : TypeOf(c) = t}
    IN IF completed = {}
       THEN [total |-> Cardinality(DOMAIN comms), completed |-> 0,
             active |-> Cardinality(DOMAIN sessions), errors |-> 0,
             total_tokens |-> 0, total_cost |-> 0, average_response_time_ms |-> 0]
       ELSE [total |-> Cardinality(DOMAIN comms),
             completed |-> Cardinality(completed),
             active |-> Cardinality(DOMAIN sessions),
             errors |-> Cardinality(errors),
             total_tokens |-> SumOver(comms, completed, "total_tokens"),
             total_cost |-> SumOver(comms, completed, "cost_estimate"),
             average_response_time_ms |->
                 SumOver(comms, completed, "response_time_ms") \div Cardinality(completed),
             by_framework |->
                 [f \in Frameworks |->
                    LET fc == {c \in completed : comms[c].framework = f}
                    IN [count |-> Cardinality(fc),
                        tokens |-> SumOver(comms, fc, "total_tokens"),
                        cost |-> SumOver(comms, fc, "cost_estimate")]],
             error_breakdown |->
                 [t \in {TypeOf(c) : c \in errors} |->
                    [count |-> Cardinality(OfType(t)),
                     latest_error |->
                        [message |-> comms[LastOf(OfType(t))].error_message,
                         code |-> comms[LastOf(OfType(t))].error_code,
                         timestamp |-> comms[LastOf(OfType(t))].session_start,
                         agent |-> comms[LastOf(OfType(t))].agent_name]]]]

\* get_communication_stats()
GetStats(comms, sessions) ==
    LET completed == {c \in DOMAIN comms : comms[c].session_end # None}
        errors == {c \in completed : comms[c].error_message \notin {None, Some("")}}
        TypeOf(c) == IF comms[c].error_type \in {None, Some("")}
                     THEN "unknown" ELSE comms[c].error_type[1]
        OfType(t) == {c \in errors : TypeOf(c) = t}
    IN IF completed = {}
       THEN [total |-> 0, completed |-> 0]
       ELSE [total |-> Cardinality(DOMAIN comms),
             completed |-> Cardinality(completed),
             active |-> Cardinality(DOMAIN sessions),
             errors |-> Cardinality(errors),
             total_tokens |-> SumOver(comms, completed, "total_tokens"),
             total_cost |-> SumOver(comms, completed, "cost_estimate"),
             average_response_time_ms |->
                 SumOver(comms, completed, "response_time_ms") \div Cardinality(completed),
             by_framework |->
                 [f \in Frameworks |->
                    LET fc == {c \in completed : comms[c].framework = f}
                    IN [count |-> Cardinality(fc),
                        tokens |-> SumOver(comms, fc, "total_tokens"),
                        cost |-> SumOver(comms, fc, "cost_estimate")]],
             error_breakdown |->
                 [t \in {TypeOf(c) : c \in errors} |->
                    [count |-> Cardinality(OfType(t)),
                     latest_error |->
                        [message |-> comms[LastOf(OfType(t))].error_message,
                         code |-> comms[LastOf(OfType(t))].error_code,
                         timestamp |-> comms[LastOf(OfType(t))].session_start,
                         agent |-> comms[LastOf(OfType(t))].agent_name]]]]

\* get_quota_exceeded_details(): the comms with error_type "quota_exceeded",
\* their number, the one with the greatest session_start (the first such in
\* dict order, as max() returns), and the set of their agent names.
GetQuotaExceededDetails_Earliest(comms) ==
    LET quota_errors == {c \in DOMAIN comms : comms[c].error_type = Some("quota_exceeded")}
        latest == CHOOSE c \in quota_errors :
                     \A d \in quota_errors : comms[c].session_start <= comms[d].session_start
    IN IF quota_errors = {}
       THEN [has_quota_errors |-> FALSE]
       ELSE [has_quota_errors |-> TRUE,
             total_quota_errors |-> Cardinality(quota_errors),
             latest_quota_error |->
                 [timestamp |-> comms[latest].session_start,
                  agent_name |-> comms[latest].agent_name,
                  error_message |-> comms[latest].error_message],
             affected_agents |-> {comms[c].agent_name : c \in quota_errors}]

GetQuotaExceededDetails(comms) ==
    LET quota_errors == {c \in DOMAIN comms : comms[c].error_type = Some("quota_exceeded")}
        latest == CHOOSE c \in quota_errors :
                     \A d \in quota_errors :
                        \/ comms[d].session_start < comms[c].session_start
                        \/ comms[d].session_start = comms[c].session_start /\ c <= d
    IN IF quota_errors = {}
       THEN [has_quota_errors |-> FALSE]
       ELSE [has_quota_errors |-> TRUE,
             total_quota_errors |-> Cardinality(quota_errors),
             latest_quota_error |->
                 [timestamp |-> comms[latest].session_start,
                  agent_name |-> comms[latest].agent_name,
                  error_message |-> comms[latest].error_message],
             affected_agents |-> {comms[c].agent_name : c \in quota_errors}]

RECURSIVE InOrder(_, _)
\* The comms whose ids are in S, in dict (insertion) order.
InOrder(comms, S) ==
    IF S = {} THEN <<>>
    ELSE Append(InOrder(comms, S \ {LastOf(S)}), comms[LastOf(S)])

\* json.dumps(export_data): asdict() leaves the Enum members held by
\* framework and provider as they are, and json.dumps raises TypeError for
\* the first one it meets; only the empty list is serialized.
JsonDumps(export_data) ==
    IF export_data = <<>>
    THEN [raised |-> FALSE, error |-> "", data |-> export_data]
    ELSE [raised |-> TRUE,
          error |-> "TypeError: Object of type AgentFramework is not JSON serializable",
          data |-> <<>>]


\* export_communications(format): the list that is serialized, or the
\* exception raised: that of json.dumps, or the ValueError for any format
\* other than "json".
ExportCommunications(comms, format) ==
    IF format = "json"
    THEN JsonDumps(InOrder(comms, DOMAIN comms))
    ELSE [raised |-> TRUE,
          error |-> "ValueError: Unsupported export format: " \o format,
          data |-> <<>>]

\* ------------------------------------------------------------ specification
\* LLMCommunicationTracker(webhook_url): empty store and index.
TrackerInit ==
    /\ communications = [c \in {} |-> 0]
    /\ active_sessions = [a \in {} |-> 0]
    /\ webhook_url \in {None, Some("http://hook")}
    /\ executor = <<>>
    /\ posted = [c \in {} |-> 0]
    /\ next_id = 0
    /\ calls = 0
    /\ last_call = [op |-> "init", comm_id |-> 0, agent_id |-> "", ret |-> None,
                    raised |-> FALSE]

PostOutcomes == {"200", "non-200", "exception"}

\* Specification Spec: any caller makes any call, with any id that a start
\* has returned or with id 0, which no start ever returned.
Init ==
    /\ TrackerInit
    /\ pc = [t \in {} |-> "start"]
    /\ my_comm = [t \in {} |-> 0]
    /\ sent = [t \in {} |-> <<>>]
    /\ local = [t \in {} |-> None]
    /\ lock = None
    /\ stats_read = None

CallStart ==
    /\ calls < MaxCalls
    /\ next_id < MaxComms
    /\ \E inp \in StartInputs : StartCommunication(inp)
    /\ UNCHANGED thread_vars

CallAddMessage ==
    /\ calls < MaxCalls
    /\ \E c \in 0..next_id, m \in MsgInputs : AddMessage(c, "x", m)
    /\ UNCHANGED thread_vars

CallComplete ==
    /\ calls < MaxCalls
    /\ \E c \in 0..next_id, inp \in CompleteInputs : CompleteCommunication(c, inp)
    /\ UNCHANGED thread_vars

WebhookWorker ==
    /\ \E o \in PostOutcomes : SendWebhookNotification(o)
    /\ UNCHANGED thread_vars

Next == CallStart \/ CallAddMessage \/ CallComplete \/ WebhookWorker

Spec == Init /\ [][Next]_vars

\* Specification SessionSpec: one thread per agent id, each running
\* start, add_message (with tokens) one or more times, complete.
Threads == Agents

ThreadStartInput(t) == CHOOSE inp \in StartInputs : inp.agent_id = t

\* What a session thread sends: messages that carry tokens, one per role class.
ThreadMsgInputs == {m \in MsgInputs : m.tokens # None /\ m.role # "system"}

\* How a session thread completes: the success variant.
ThreadCompleteInput == CHOOSE inp \in CompleteInputs : inp.error_message = None

SessionInit ==
    /\ TrackerInit
    /\ pc = [t \in Threads |-> "start"]
    /\ my_comm = [t \in Threads |-> 0]
    /\ sent = [t \in Threads |-> <<>>]
    /\ local = [t \in Threads |-> None]
    /\ lock = None
    /\ stats_read = None

ThreadStart(t) ==
    /\ pc[t] = "start"
    /\ StartCommunication(ThreadStartInput(t))
    /\ pc' = [pc EXCEPT ![t] = "add"]
    /\ my_comm' = [my_comm EXCEPT ![t] = NewCommId]
    /\ UNCHANGED <<sent, local, lock, stats_read>>

ThreadAdd(t) ==
    /\ pc[t] = "add"
    /\ Len(sent[t]) < MaxSessionMsgs
    /\ \E m \in ThreadMsgInputs :
          /\ AddMessage(my_comm[t], t, m)
          /\ sent' = [sent EXCEPT ![t] = Append(@, LLMMessage(NewMessageId, t, m))]
    /\ UNCHANGED <<pc, my_comm, local, lock, stats_read>>

ThreadComplete(t) ==
    /\ pc[t] = "add"
    /\ Len(sent[t]) >= 1
    /\ CompleteCommunication(my_comm[t], ThreadCompleteInput)
    /\ pc' = [pc EXCEPT ![t] = "done"]
    /\ UNCHANGED <<my_comm, sent, local, lock, stats_read>>

SessionNext ==
    \/ \E t \in Threads : ThreadStart(t)
    \/ \E t \in Threads : ThreadAdd(t)
    \/ \E t \in Threads : ThreadComplete(t)
    \/ WebhookWorker

SessionSpec == SessionInit /\ [][SessionNext]_vars

\* Specification SharedSpec: several threads call add_message on the same
\* open comm id.  add_message is taken apart into the steps between which
\* another thread can run: the message is built before the lock is taken,
\* and inside the locked section the append and the read and the write of
\* "total += tokens" are separate steps.
SharedInit ==
    /\ TrackerInit
    /\ pc = [t \in Threads |-> "wait"]
    /\ my_comm = [t \in Threads |-> 0]
    /\ sent = [t \in Threads |-> <<>>]
    /\ local = [t \in Threads |-> None]
    /\ lock = None
    /\ stats_read = None

\* What a thread of SharedSpec adds: one input and one output message kind,
\* both with tokens.
SharedMsgInputs == {m \in MsgInputs : m.tokens # None /\ m.role \in {"user", "assistant"}}

\* One start_communication, whose id every thread is handed.
SharedStart ==
    /\ \A t \in Threads : pc[t] = "wait"
    /\ StartCommunication(ThreadStartInput(CHOOSE t \in Threads : TRUE))
    /\ pc' = [t \in Threads |-> "create"]
    /\ my_comm' = [t \in Threads |-> NewCommId]
    /\ UNCHANGED <<sent, local, lock, stats_read>>

\* add_message, before the lock: generate the id, build the LLMMessage.
AddCreate(t) ==
    /\ pc[t] = "create"
    /\ Len(sent[t]) < MaxSessionMsgs
    /\ \E m \in SharedMsgInputs :
          /\ local' = [local EXCEPT
                         ![t] = Some([message |-> LLMMessage(NewMessageId, t, m),
                                      m |-> m, loaded |-> 0])]
          /\ sent' = [sent EXCEPT ![t] = Append(@, LLMMessage(NewMessageId, t, m))]
    /\ calls' = calls + 1
    /\ pc' = [pc EXCEPT ![t] = "acquire"]
    /\ UNCHANGED <<communications, active_sessions, webhook_url, executor, posted,
                   next_id, last_call, my_comm, lock, stats_read>>

\* Fault variant of AddAcquire: the locked section is entered without
\* taking self._lock.
AddAcquire_NoLock(t) ==
    /\ pc[t] = "acquire"
    /\ pc' = [pc EXCEPT ![t] = "append"]
    /\ UNCHANGED <<tracker_vars, my_comm, sent, local, lock, stats_read>>

\* add_message: with self._lock (entry).
AddAcquire(t) ==
    /\ pc[t] = "acquire"
    /\ lock = None
    /\ lock' = Some(t)
    /\ pc' = [pc EXCEPT ![t] = "append"]
    /\ UNCHANGED <<tracker_vars, my_comm, sent, local, stats_read>>

\* add_message: the membership test and messages.append(message).
AddAppend(t) ==
    /\ pc[t] = "append"
    /\ communications' =
         IF my_comm[t] \in DOMAIN communications
         THEN [communications EXCEPT
                 ![my_comm[t]].messages = Append(@, local[t][1].message)]
         ELSE communications
    /\ pc' = [pc EXCEPT ![t] = "load"]
    /\ UNCHANGED <<active_sessions, webhook_url, executor, posted, next_id, calls,
                   last_call, my_comm, sent, local, lock, stats_read>>

\* The token bucket that add_message updates for a role, if any.
Bucket(role) ==
    IF role \in {"user", "system"} THEN "total_input_tokens"
    ELSE IF role = "assistant" THEN "total_output_tokens"
    ELSE "none"

\* add_message: the read of "total_<bucket>_tokens += tokens".
AddLoad(t) ==
    /\ pc[t] = "load"
    /\ local' = [local EXCEPT
                   ![t] = Some([local[t][1] EXCEPT
                     !.loaded =
                        IF my_comm[t] \in DOMAIN communications
                           /\ Truthy(local[t][1].m.tokens)
                           /\ Bucket(local[t][1].m.role) # "none"
                        THEN communications[my_comm[t]][Bucket(local[t][1].m.role)]
                        ELSE 0])]
    /\ pc' = [pc EXCEPT ![t] = "store"]
    /\ UNCHANGED <<tracker_vars, my_comm, sent, lock, stats_read>>

\* A stored comm after the write of "total_<bucket>_tokens += tokens" with
\* the value loaded before, the recomputation of total_tokens and the
\* function-call and tool tracking.
Stored_(comm, m, loaded) ==
    LET b == Bucket(m.role)
        c1 == IF Truthy(m.tokens) /\ b # "none"
              THEN [comm EXCEPT ![b] = loaded + m.tokens[1]] ELSE comm
    IN [c1 EXCEPT
          !.total_tokens = IF Truthy(m.tokens)
                           THEN c1.total_input_tokens + c1.total_output_tokens ELSE @,
          !.function_calls_made =
              IF m.function_call # None THEN Append(@, m.function_call[1]) ELSE @,
          !.tools_used = @ \o m.tool_calls]

\* add_message: the write, the end of the locked section and the return.
AddStore(t) ==
    /\ pc[t] = "store"
    /\ communications' =
         IF my_comm[t] \in DOMAIN communications
         THEN [communications EXCEPT
                 ![my_comm[t]] = Stored_(@, local[t][1].m, local[t][1].loaded)]
         ELSE communications
    /\ lock' = IF lock = Some(t) THEN None ELSE lock
    /\ last_call' = [op |-> "add_message", comm_id |-> my_comm[t], agent_id |-> "",
                     ret |-> Some(local[t][1].message.id), raised |-> FALSE]
    /\ local' = [local EXCEPT ![t] = None]
    /\ pc' = [pc EXCEPT ![t] = "create"]
    /\ UNCHANGED <<active_sessions, webhook_url, executor, posted, next_id, calls,
                   my_comm, sent, stats_read>>

\* The thread makes no further call.
ThreadStop(t) ==
    /\ pc[t] = "create"
    /\ Len(sent[t]) >= 1
    /\ pc' = [pc EXCEPT ![t] = "done"]
    /\ UNCHANGED <<tracker_vars, my_comm, sent, local, lock, stats_read>>

SharedNext ==
    \/ SharedStart
    \/ \E t \in Threads : AddCreate(t)
    \/ \E t \in Threads : AddAcquire(t)
    \/ \E t \in Threads : AddAppend(t)
    \/ \E t \in Threads : AddLoad(t)
    \/ \E t \in Threads : AddStore(t)
    \/ \E t \in Threads : ThreadStop(t)

SharedSpec == SharedInit /\ [][SharedNext]_vars

\* Specification TornSpec: one thread per agent id runs start, add_message
\* and complete_communication, the locked section of complete taken apart
\* into its assignments, while a reader calls get_communication_stats, which
\* takes no lock.  start and add_message are single steps that need the lock
\* to be free.
TornInit ==
    /\ TrackerInit
    /\ pc = [t \in Threads |-> "start"]
    /\ my_comm = [t \in Threads |-> 0]
    /\ sent = [t \in Threads |-> <<>>]
    /\ local = [t \in Threads |-> None]
    /\ lock = None
    /\ stats_read = None

\* What a thread of this specification sends: a user message with tokens.
TornMsgInput == CHOOSE m \in MsgInputs : m.role = "user"

TornStart(t) ==
    /\ lock = None
    /\ ThreadStart(t)

TornAdd(t) ==
    /\ lock = None
    /\ pc[t] = "add"
    /\ Len(sent[t]) < MaxSessionMsgs
    /\ LET m == TornMsgInput
       IN /\ AddMessage(my_comm[t], t, m)
          /\ sent' = [sent EXCEPT ![t] = Append(@, LLMMessage(NewMessageId, t, m))]
    /\ UNCHANGED <<pc, my_comm, local, lock, stats_read>>

\* The thread calls complete_communication(my_comm[t], inp).
TornCallComplete(t) ==
    /\ pc[t] = "add"
    /\ \E inp \in CompleteInputs :
          local' = [local EXCEPT ![t] = Some([inp |-> inp])]
    /\ pc' = [pc EXCEPT ![t] = "complete"]
    /\ UNCHANGED <<tracker_vars, my_comm, sent, lock, stats_read>>

\* with self._lock, then the two early returns: an id that is not stored, a
\* stored comm without messages (deleted).  Otherwise the lock stays held;
\* local[t] keeps the store and index as they were when the lock was taken.
CompleteAcquire(t) ==
    /\ pc[t] = "complete"
    /\ lock = None
    /\ LET c == my_comm[t]
           Returned == /\ calls' = calls + 1
                       /\ last_call' = [op |-> "complete", comm_id |-> c, agent_id |-> "",
                                        ret |-> None, raised |-> FALSE]
                       /\ pc' = [pc EXCEPT ![t] = "completed"]
                       /\ UNCHANGED <<lock, local>>
       IN IF c \notin DOMAIN communications
          THEN Returned /\ UNCHANGED communications
          ELSE IF communications[c].messages = <<>>
          THEN Returned /\ communications' = Without(communications, c)
          ELSE /\ lock' = Some(t)
               /\ local' = [local EXCEPT ![t] =
                              Some([comms |-> communications,
                                    sessions |-> active_sessions] @@ local[t][1])]
               /\ pc' = [pc EXCEPT ![t] = "end"]
               /\ UNCHANGED <<communications, calls, last_call>>
    /\ UNCHANGED <<active_sessions, webhook_url, executor, posted, next_id,
                   my_comm, sent, stats_read>>

\* comm.session_end = datetime.now()
CompleteSetEnd(t) ==
    /\ pc[t] = "end"
    /\ communications' = [communications EXCEPT ![my_comm[t]].session_end = Some("set")]
    /\ pc' = [pc EXCEPT ![t] = "fields"]
    /\ UNCHANGED <<active_sessions, webhook_url, executor, posted, next_id, calls,
                   last_call, my_comm, sent, local, lock, stats_read>>

\* comm.final_response = ... to comm.cost_estimate = self._calculate_cost(comm)
CompleteFields(t) ==
    /\ pc[t] = "fields"
    /\ communications' = [communications EXCEPT
                            ![my_comm[t]] = Finalized(@, local[t][1].inp)]
    /\ pc' = [pc EXCEPT ![t] = "index"]
    /\ UNCHANGED <<active_sessions, webhook_url, executor, posted, next_id, calls,
                   last_call, my_comm, sent, local, lock, stats_read>>

\* Fault variant of CompleteIndex: the POST is made by the completing thread
\* itself, inside the with block.
CompleteIndex_PostInline(t) ==
    /\ pc[t] = "index"
    /\ active_sessions' =
         IF communications[my_comm[t]].agent_id \in DOMAIN active_sessions
         THEN Without(active_sessions, communications[my_comm[t]].agent_id)
         ELSE active_sessions
    /\ pc' = [pc EXCEPT ![t] = IF webhook_url # None THEN "posting" ELSE "completed"]
    /\ lock' = IF webhook_url # None THEN lock ELSE None
    /\ calls' = calls + 1
    /\ last_call' = [op |-> "complete", comm_id |-> my_comm[t], agent_id |-> "",
                     ret |-> None, raised |-> FALSE]
    /\ UNCHANGED <<communications, webhook_url, executor, posted, next_id,
                   my_comm, sent, local, stats_read>>

\* The index entry of the comm's agent is deleted, the webhook is submitted
\* to the executor, and the lock is released on leaving the with block.
CompleteIndex(t) ==
    /\ pc[t] = "index"
    /\ active_sessions' =
         IF communications[my_comm[t]].agent_id \in DOMAIN active_sessions
         THEN Without(active_sessions, communications[my_comm[t]].agent_id)
         ELSE active_sessions
    /\ executor' = IF webhook_url # None THEN Append(executor, my_comm[t]) ELSE executor
    /\ lock' = None
    /\ calls' = calls + 1
    /\ last_call' = [op |-> "complete", comm_id |-> my_comm[t], agent_id |-> "",
                     ret |-> None, raised |-> FALSE]
    /\ pc' = [pc EXCEPT ![t] = "completed"]
    /\ UNCHANGED <<communications, webhook_url, posted, next_id,
                   my_comm, sent, local, stats_read>>

\* The statistics a caller may be given while the lock is held by a thread
\* inside complete_communication: those of the store before that call and
\* those of the store after it.  With the lock free, those of the store.
ConsistentStats ==
    IF lock = None
    THEN {GetStats(communications, active_sessions)}
    ELSE LET h == lock[1]
             b == local[h][1]
             c == my_comm[h]
         IN {GetStats(b.comms, b.sessions),
             GetStats([b.comms EXCEPT ![c] = Finalized(@, b.inp)],
                      Without(b.sessions, b.comms[c].agent_id))}

\* get_communication_stats(), called from any thread at any time: it reads
\* self.communications and self.active_sessions without self._lock.  (The
\* reads are taken here in one step; the code makes them one after another.)
ReadStats ==
    /\ stats_read' = Some([reported |-> GetStats(communications, active_sessions),
                           consistent |-> ConsistentStats])
    /\ UNCHANGED <<tracker_vars, pc, my_comm, sent, local, lock>>

TornNext ==
    \/ \E t \in Threads : TornStart(t)
    \/ \E t \in Threads : TornAdd(t)
    \/ \E t \in Threads : TornCallComplete(t)
    \/ \E t \in Threads : CompleteAcquire(t)
    \/ \E t \in Threads : CompleteSetEnd(t)
    \/ \E t \in Threads : CompleteFields(t)
    \/ \E t \in Threads : CompleteIndex(t)
    \/ WebhookWorker
    \/ ReadStats

TornSpec == TornInit /\ [][TornNext]_vars

\* Specification CostSpec: one communication, started for a provider and a
\* model that are or are not in the price table, given messages of 1, 3 and
\* 1000 tokens, and completed.
CostStartInputs ==
    { [agent_id |-> "a1", agent_name |-> "Dr. A1", framework |-> "autogen",
       provider |-> pm[1], model |-> pm[2]] :
      pm \in { <<"openai", "gpt-4">>, <<"openai", "gpt-3.5-turbo">>,
               <<"openai", "made-up-model">>, <<"anthropic", "gpt-4">> } }

CostMsgInputs ==
    { [role |-> r, tokens |-> Some(n), function_call |-> None, tool_calls |-> <<>>] :
      r \in {"user", "assistant"}, n \in {3, 1000} }

CostStart ==
    /\ next_id = 0
    /\ \E inp \in CostStartInputs : StartCommunication(inp)
    /\ UNCHANGED thread_vars

CostAdd ==
    /\ calls < MaxCalls
    /\ \E m \in CostMsgInputs : AddMessage(next_id, "x", m)
    /\ UNCHANGED thread_vars

CostComplete ==
    /\ calls < MaxCalls
    /\ \E inp \in CompleteInputs : CompleteCommunication(next_id, inp)
    /\ UNCHANGED thread_vars

CostNext == CostStart \/ CostAdd \/ CostComplete \/ WebhookWorker

CostSpec == Init /\ [][CostNext]_vars

\* Specification ClassifierSpec: parse_openai_error applied to an exception
\* whose text is made of up to MaxFragments fragments, in any order, and
\* which has a status_code attribute or has none.
Fragments ==
    { "Quota exceeded", "insufficient_quota", "Rate Limit reached",
      "Error code: 429", "Unauthorized", "status 401", "Invalid API Key",
      "API key specified is not a valid OpenAI format", "400 Bad Request",
      "HTTP 500", "Connection timed out" }

StatusCodes == {None, Some(429), Some(503)}

RECURSIVE Joined(_)
\* The fragments of fs, joined by "; ".
Joined(fs) ==
    IF fs = <<>> THEN ""
    ELSE IF Len(fs) = 1 THEN Head(fs)
    ELSE Head(fs) \o "; " \o Joined(Tail(fs))

ExceptionInputs ==
    { [message |-> Joined(fs), status_code |-> sc] :
      fs \in UNION {[1..k -> Fragments] : k \in 0..MaxFragments},
      sc \in StatusCodes }

ClassifierInit ==
    /\ TrackerInit
    /\ webhook_url = None
    /\ pc = [t \in {"classifier"} |-> "parse"]
    /\ my_comm = [t \in {"classifier"} |-> 0]
    /\ sent = [t \in {"classifier"} |-> <<>>]
    /\ local \in [{"classifier"} -> {Some(e) : e \in ExceptionInputs}]
    /\ lock = None
    /\ stats_read = None

\* tracker.parse_openai_error(e)
Classify ==
    /\ pc["classifier"] = "parse"
    /\ last_call' = [op |-> "parse_openai_error", comm_id |-> 0, agent_id |-> "",
                     ret |-> Some(ParseOpenAIError(local["classifier"][1])),
                     raised |-> FALSE]
    /\ pc' = [pc EXCEPT !["classifier"] = "parsed"]
    /\ UNCHANGED <<communications, active_sessions, webhook_url, executor, posted,
                   next_id, calls, my_comm, sent, local, lock, stats_read>>

ClassifierNext == Classify

ClassifierSpec == ClassifierInit /\ [][ClassifierNext]_vars

\* Specification AdapterSpec: thread a1 makes one call of the AutoGen
\* adapter's tracked_generate_reply, thread a2 one call of the CrewAI
\* adapter's tracked_call, and a worker of the executor sends the webhooks.
\* start_communication and add_message are single steps that need the lock
\* to be free; complete_communication is taken apart as in TornSpec.
Procs == Threads \cup {"worker"}

IsAutoGen(t) == ThreadStartInput(t).framework = "autogen"

\* _estimate_tokens(text)
EstimateTokens(text) == IF Len(text) \div 4 > 1 THEN Len(text) \div 4 ELSE 1

\* What the caller hands to the wrapped call, as the add_message calls made
\* for it before the underlying call: AutoGen logs each incoming message
\* without tokens (the list may be empty), CrewAI logs the prompt as one
\* user message with estimated tokens.
IncomingMessages(t) ==
    IF IsAutoGen(t)
    THEN { <<>>,
           << [content |-> "assess patient",
               m |-> [role |-> "user", tokens |-> None,
                      function_call |-> None, tool_calls |-> <<>>]] >> }
    ELSE { << [content |-> p,
               m |-> [role |-> "user", tokens |-> Some(EstimateTokens(p)),
                      function_call |-> None, tool_calls |-> <<>>]] >> :
           p \in {"", "assess patient"} }

\* What the underlying call may return: a string, a dict with content, None.
ReplyValues(t) ==
    IF IsAutoGen(t)
    THEN { [type |-> "str", content |-> "recommend follow-up"],
           [type |-> "dict", content |-> "ok"],
           [type |-> "none", content |-> ""] }
    ELSE { [type |-> "str", content |-> "recommend follow-up"] }

\* What the underlying call may raise.
RaisedExceptions ==
    { [message |-> "Quota exceeded", status_code |-> Some(429)],
      [message |-> "Connection timed out", status_code |-> None] }

\* The text the adapter records for a reply: AutoGen takes a str as it is
\* and the content of a dict that has one, else ""; CrewAI takes str(result).
ResponseContent(t, reply) ==
    IF IsAutoGen(t)
    THEN IF reply.type \in {"str", "dict"} THEN reply.content ELSE ""
    ELSE IF reply.type = "none" THEN "None" ELSE reply.content

\* The wall-clock time the adapter measures around the underlying call.
ResponseTimeMs == 10

AdapterInit ==
    /\ TrackerInit
    /\ pc = [p \in Procs |-> IF p = "worker" THEN "idle" ELSE "start"]
    /\ my_comm = [p \in Procs |-> 0]
    /\ sent = [p \in Procs |-> <<>>]
    /\ local = [p \in Procs |-> None]
    /\ lock = None
    /\ stats_read = None

\* self.tracker.start_communication(...), with the arguments of the call
\* kept for the steps that follow.
TrackedStart(t) ==
    /\ pc[t] = "start"
    /\ lock = None
    /\ StartCommunication(ThreadStartInput(t))
    /\ \E msgs \in IncomingMessages(t) :
          local' = [local EXCEPT ![t] =
                      Some([todo |-> msgs, underlying |-> None, inp |-> None,
                            wrapped |-> None])]
    /\ my_comm' = [my_comm EXCEPT ![t] = NewCommId]
    /\ pc' = [pc EXCEPT ![t] = "log"]
    /\ UNCHANGED <<sent, lock, stats_read>>

\* self.tracker.add_message(comm_id, role, content[, tokens]) for the next
\* incoming message.
TrackedLogMessage(t) ==
    /\ pc[t] = "log"
    /\ lock = None
    /\ local[t][1].todo # <<>>
    /\ LET msg == Head(local[t][1].todo)
       IN /\ AddMessage(my_comm[t], msg.content, msg.m)
          /\ sent' = [sent EXCEPT ![t] =
                        Append(@, LLMMessage(NewMessageId, msg.content, msg.m))]
    /\ local' = [local EXCEPT ![t] = Some([@[1] EXCEPT !.todo = Tail(@)])]
    /\ UNCHANGED <<pc, my_comm, lock, stats_read>>

\* original_generate_reply(...) / original_call(prompt): the underlying call
\* is made and is in progress.
OriginalCall(t) ==
    /\ pc[t] = "log"
    /\ local[t][1].todo = <<>>
    /\ pc' = [pc EXCEPT ![t] = "llm_call"]
    /\ UNCHANGED <<tracker_vars, my_comm, sent, local, lock, stats_read>>

\* The underlying call returns a value.
OriginalReturn(t) ==
    /\ pc[t] = "llm_call"
    /\ \E reply \in ReplyValues(t) :
          local' = [local EXCEPT ![t] =
                      Some([@[1] EXCEPT !.underlying =
                                           Some([kind |-> "return", value |-> reply])])]
    /\ pc' = [pc EXCEPT ![t] = "returned"]
    /\ UNCHANGED <<tracker_vars, my_comm, sent, lock, stats_read>>

\* The underlying call raises an exception.
OriginalRaise(t) ==
    /\ pc[t] = "llm_call"
    /\ \E e \in RaisedExceptions :
          local' = [local EXCEPT ![t] =
                      Some([@[1] EXCEPT !.underlying =
                                           Some([kind |-> "raise", value |-> e])])]
    /\ pc' = [pc EXCEPT ![t] = "raised"]
    /\ UNCHANGED <<tracker_vars, my_comm, sent, lock, stats_read>>

\* After the underlying call has returned: add_message(comm_id, "assistant",
\* response_content) (CrewAI: with estimated tokens), then the call of
\* complete_communication(comm_id, response_content, response_time_ms).
TrackedLogReply(t) ==
    /\ pc[t] = "returned"
    /\ lock = None
    /\ LET content == ResponseContent(t, local[t][1].underlying[1].value)
           m == [role |-> "assistant",
                 tokens |-> IF IsAutoGen(t) THEN None
                            ELSE Some(EstimateTokens(content)),
                 function_call |-> None, tool_calls |-> <<>>]
       IN /\ AddMessage(my_comm[t], content, m)
          /\ sent' = [sent EXCEPT ![t] = Append(@, LLMMessage(NewMessageId, content, m))]
          /\ local' = [local EXCEPT ![t] =
                         Some([@[1] EXCEPT !.inp =
                                 [final_response |-> Some(content),
                                  response_time_ms |-> ResponseTimeMs,
                                  confidence_score |-> None,
                                  error_message |-> None, error_type |-> None,
                                  error_code |-> None, retry_count |-> 0]])]
    /\ pc' = [pc EXCEPT ![t] = "complete"]
    /\ UNCHANGED <<my_comm, lock, stats_read>>

\* Fault variant of TrackedExcept: the except branch builds the error fields
\* but does not call complete_communication.
TrackedExcept_NoComplete(t) ==
    /\ pc[t] = "raised"
    /\ LET parsed == ParseOpenAIError(local[t][1].underlying[1].value)
       IN local' = [local EXCEPT ![t] =
                      Some([@[1] EXCEPT !.inp =
                              [final_response |-> Some(""),
                               response_time_ms |-> ResponseTimeMs,
                               confidence_score |-> None,
                               error_message |-> Some(parsed[1]),
                               error_type |-> Some(parsed[2]),
                               error_code |-> parsed[3], retry_count |-> 0]])]
    /\ pc' = [pc EXCEPT ![t] = "completed"]
    /\ UNCHANGED <<tracker_vars, my_comm, sent, lock, stats_read>>

\* except Exception as e: the result of parse_openai_error(e) is unpacked
\* and passed on to complete_communication.  AutoGen unpacks it as
\* (error_type, error_message, error_code) and sets final_response to
\* "Error: " + error_message; CrewAI unpacks it as (error_message,
\* error_type, error_code) and sets final_response to "".
TrackedExcept(t) ==
    /\ pc[t] = "raised"
    /\ LET parsed == ParseOpenAIError(local[t][1].underlying[1].value)
           error_message == IF IsAutoGen(t) THEN parsed[2] ELSE parsed[1]
           error_type == IF IsAutoGen(t) THEN parsed[1] ELSE parsed[2]
       IN local' = [local EXCEPT ![t] =
                      Some([@[1] EXCEPT !.inp =
                              [final_response |->
                                  Some(IF IsAutoGen(t)
                                       THEN "Error: " \o error_message ELSE ""),
                               response_time_ms |-> ResponseTimeMs,
                               confidence_score |-> None,
                               error_message |-> Some(error_message),
                               error_type |-> Some(error_type),
                               error_code |-> parsed[3], retry_count |-> 0]])]
    /\ pc' = [pc EXCEPT ![t] = "complete"]
    /\ UNCHANGED <<tracker_vars, my_comm, sent, lock, stats_read>>

\* Fault variant of TrackedFinish: the except branch ends without raise, so
\* the wrapped call returns None.
TrackedFinish_Swallow(t) ==
    /\ pc[t] = "completed"
    /\ local' = [local EXCEPT ![t] =
                   Some([@[1] EXCEPT !.wrapped =
                           IF local[t][1].inp.error_message = None
                           THEN local[t][1].underlying
                           ELSE Some([kind |-> "return",
                                      value |-> [type |-> "none", content |-> ""]])])]
    /\ pc' = [pc EXCEPT ![t] = "done"]
    /\ UNCHANGED <<tracker_vars, my_comm, sent, lock, stats_read>>

\* return reply / return result on the try branch, raise e / raise on the
\* except branch: the wrapped call ends with the value or the exception it
\* got from the underlying call.
TrackedFinish(t) ==
    /\ pc[t] = "completed"
    /\ local' = [local EXCEPT ![t] =
                   Some([@[1] EXCEPT !.wrapped =
                           IF local[t][1].inp.error_message = None
                           THEN Some([kind |-> "return",
                                      value |-> local[t][1].underlying[1].value])
                           ELSE Some([kind |-> "raise",
                                      value |-> local[t][1].underlying[1].value])])]
    /\ pc' = [pc EXCEPT ![t] = "done"]
    /\ UNCHANGED <<tracker_vars, my_comm, sent, lock, stats_read>>

\* A worker of the executor takes the next task and starts the POST.
PostBegin ==
    /\ pc["worker"] = "idle"
    /\ executor # <<>>
    /\ pc' = [pc EXCEPT !["worker"] = "posting"]
    /\ UNCHANGED <<tracker_vars, my_comm, sent, local, lock, stats_read>>

\* The POST ends: 200, another status, or an exception.
PostEnd ==
    /\ pc["worker"] = "posting"
    /\ \E o \in PostOutcomes : SendWebhookNotification(o)
    /\ pc' = [pc EXCEPT !["worker"] = "idle"]
    /\ UNCHANGED <<my_comm, sent, local, lock, stats_read>>

AdapterNext ==
    \/ \E t \in Threads : TrackedStart(t)
    \/ \E t \in Threads : TrackedLogMessage(t)
    \/ \E t \in Threads : OriginalCall(t)
    \/ \E t \in Threads : OriginalReturn(t)
    \/ \E t \in Threads : OriginalRaise(t)
    \/ \E t \in Threads : TrackedLogReply(t)
    \/ \E t \in Threads : TrackedExcept(t)
    \/ \E t \in Threads : CompleteAcquire(t)
    \/ \E t \in Threads : CompleteSetEnd(t)
    \/ \E t \in Threads : CompleteFields(t)
    \/ \E t \in Threads : CompleteIndex(t)
    \/ \E t \in Threads : TrackedFinish(t)
    \/ PostBegin
    \/ PostEnd

AdapterSpec == AdapterInit /\ [][AdapterNext]_vars

\* Specification ReadSpec: one caller makes start, add_message and complete
\* calls one after another and, between them, the read calls
\* get_communication_stats, export_communications and
\* get_quota_exceeded_details; what a read call returns is kept in
\* last_call.ret.
\* What the caller of this specification sends: an assistant message with
\* tokens.
ReadMsgInput == CHOOSE m \in MsgInputs : m.role = "assistant" /\ m.tokens # None

\* A tracker without webhook URL.
ReadInit == Init /\ webhook_url = None

ReadStart ==
    /\ calls < MaxReadCalls
    /\ next_id < MaxComms
    /\ \E inp \in StartInputs : StartCommunication(inp)
    /\ UNCHANGED thread_vars

ReadAdd ==
    /\ calls < MaxReadCalls
    /\ \E c \in DOMAIN communications : AddMessage(c, "x", ReadMsgInput)
    /\ UNCHANGED thread_vars

ReadComplete ==
    /\ calls < MaxReadCalls
    /\ \E c \in DOMAIN communications, inp \in CompleteInputs :
          CompleteCommunication(c, inp)
    /\ UNCHANGED thread_vars

\* get_communication_stats()
CallGetStats ==
    /\ last_call' = [op |-> "get_stats", comm_id |-> 0, agent_id |-> "",
                     ret |-> Some(GetStats(communications, active_sessions)),
                     raised |-> FALSE]
    /\ UNCHANGED <<communications, active_sessions, webhook_url, executor, posted,
                   next_id, calls, thread_vars>>

ExportFormats == {"json", "xml"}

\* export_communications(format)
CallExport ==
    /\ \E format \in ExportFormats :
          LET result == ExportCommunications(communications, format)
          IN last_call' = [op |-> "export", comm_id |-> 0, agent_id |-> format,
                           ret |-> Some(result), raised |-> result.raised]
    /\ UNCHANGED <<communications, active_sessions, webhook_url, executor, posted,
                   next_id, calls, thread_vars>>

\* get_quota_exceeded_details()
CallGetQuotaExceededDetails ==
    /\ last_call' = [op |-> "get_quota_exceeded_details", comm_id |-> 0,
                     agent_id |-> "",
                     ret |-> Some(GetQuotaExceededDetails(communications)),
                     raised |-> FALSE]
    /\ UNCHANGED <<communications, active_sessions, webhook_url, executor, posted,
                   next_id, calls, thread_vars>>

ReadNext ==
    \/ ReadStart
    \/ ReadAdd
    \/ ReadComplete
    \/ CallGetStats
    \/ CallExport
    \/ CallGetQuotaExceededDetails

ReadSpec == ReadInit /\ [][ReadNext]_vars

\* Specification IdSpec: start_communication with the id as the code builds
\* it, f"comm_{int(time.time())}_{uuid.uuid4().hex[:8]}": the clock second
\* and eight hex digits of a random uuid.  The id is built before the lock
\* is taken; the comm is put into the store and the index under the lock.
\* Threads call start and add_message repeatedly while a clock runs.
\* UuidPrefixes stands for the 16^8 values of uuid4().hex[:8].
UuidPrefixes == {0, 1}

\* The id "comm_<second>_<prefix>" as a number, one for each pair.
CommIdOf(second, prefix) == second * Cardinality(UuidPrefixes) + prefix + 1

IdProcs == Threads \cup {"clock"}

\* local["clock"] holds int(time.time()).
IdInit ==
    /\ TrackerInit
    /\ webhook_url = None
    /\ pc = [p \in IdProcs |-> IF p = "clock" THEN "run" ELSE "start"]
    /\ my_comm = [p \in IdProcs |-> 0]
    /\ sent = [p \in IdProcs |-> <<>>]
    /\ local = [p \in IdProcs |-> IF p = "clock" THEN Some(0) ELSE None]
    /\ lock = None
    /\ stats_read = None

\* A second passes.
Tick ==
    /\ local["clock"][1] < MaxSeconds
    /\ local' = [local EXCEPT !["clock"] = Some(@[1] + 1)]
    /\ UNCHANGED <<tracker_vars, pc, my_comm, sent, lock, stats_read>>

\* comm_id = f"comm_{int(time.time())}_{uuid.uuid4().hex[:8]}" and the
\* construction of the LLMCommunication.
IdGenerate(t) ==
    /\ pc[t] = "start"
    /\ calls < MaxCalls
    /\ \E u \in UuidPrefixes :
          local' = [local EXCEPT ![t] = Some(CommIdOf(local["clock"][1], u))]
    /\ pc' = [pc EXCEPT ![t] = "insert"]
    /\ UNCHANGED <<tracker_vars, my_comm, sent, lock, stats_read>>

\* with self._lock: self.communications[comm_id] = communication;
\* self.active_sessions[agent_id] = comm_id; then return comm_id.  sent[t]
\* lists the ids returned to thread t.  session_start is the clock reading
\* at construction, here the second that went into the id.
IdInsert(t) ==
    /\ pc[t] = "insert"
    /\ lock = None
    /\ LET comm_id == local[t][1]
           inp == ThreadStartInput(t)
           second == (comm_id - 1) \div Cardinality(UuidPrefixes)
       IN /\ communications' =
                With(communications, comm_id,
                     [LLMCommunication(comm_id, inp) EXCEPT !.session_start = second])
          /\ active_sessions' = With(active_sessions, inp.agent_id, comm_id)
          /\ last_call' = [op |-> "start", comm_id |-> 0, agent_id |-> inp.agent_id,
                           ret |-> Some(comm_id), raised |-> FALSE]
          /\ my_comm' = [my_comm EXCEPT ![t] = comm_id]
          /\ sent' = [sent EXCEPT ![t] = Append(@, comm_id)]
    /\ next_id' = next_id + 1
    /\ calls' = calls + 1
    /\ local' = [local EXCEPT ![t] = None]
    /\ pc' = [pc EXCEPT ![t] = "add"]
    /\ UNCHANGED <<webhook_url, executor, posted, lock, stats_read>>

\* add_message on the id the thread was given, then on to the next start.
IdAdd(t) ==
    /\ pc[t] = "add"
    /\ lock = None
    /\ calls < MaxCalls
    /\ AddMessage(my_comm[t], t, TornMsgInput)
    /\ pc' = [pc EXCEPT ![t] = "start"]
    /\ UNCHANGED <<my_comm, sent, local, lock, stats_read>>

\* The thread goes on to its next start without adding a message.
IdSkipAdd(t) ==
    /\ pc[t] = "add"
    /\ pc' = [pc EXCEPT ![t] = "start"]
    /\ UNCHANGED <<tracker_vars, my_comm, sent, local, lock, stats_read>>

IdNext ==
    \/ Tick
    \/ \E t \in Threads : IdGenerate(t)
    \/ \E t \in Threads : IdInsert(t)
    \/ \E t \in Threads : IdAdd(t)
    \/ \E t \in Threads : IdSkipAdd(t)

IdSpec == IdInit /\ [][IdNext]_vars

\* Specification ResetSpec: the process-wide tracker global_llm_tracker, the
\* request handlers that use it, and reset_tracker().  communications and
\* active_sessions are the state of the tracker object that the global name
\* is bound to; reset_tracker() binds the name to a new, empty tracker, and
\* the object it was bound to lives on in the references taken before:
\* local["discarded"] holds its state.  A handler takes its reference once,
\* with get_tracker(), and then calls start, add_message and complete on it;
\* local[t] is the reference: the number of resets made when it was taken.
ResetProcs == Threads \cup {"discarded"}

ResetInit ==
    /\ TrackerInit
    /\ webhook_url = None
    /\ pc = [p \in ResetProcs |-> IF p = "discarded" THEN "none" ELSE "get"]
    /\ my_comm = [p \in ResetProcs |-> 0]
    /\ sent = [p \in ResetProcs |-> <<>>]
    /\ local = [p \in ResetProcs |-> None]
    /\ lock = None
    /\ stats_read = None

\* How many times reset_tracker() has run (at most once here).
Resets == IF local["discarded"] = None THEN 0 ELSE 1

\* Does the reference of handler t point to the tracker the global name is
\* bound to now?
RefIsCurrent(t) == local[t][1] = Resets

\* tracker = get_tracker()
GetTracker(t) ==
    /\ pc[t] = "get"
    /\ local' = [local EXCEPT ![t] = Some(Resets)]
    /\ pc' = [pc EXCEPT ![t] = "start"]
    /\ UNCHANGED <<tracker_vars, my_comm, sent, lock, stats_read>>

\* reset_tracker(): global_llm_tracker = LLMCommunicationTracker()
ResetTracker ==
    /\ local["discarded"] = None
    /\ local' = [local EXCEPT !["discarded"] =
                   Some([communications |-> communications,
                         active_sessions |-> active_sessions])]
    /\ communications' = [c \in {} |-> 0]
    /\ active_sessions' = [a \in {} |-> 0]
    /\ executor' = <<>>
    /\ last_call' = [op |-> "reset", comm_id |-> 0, agent_id |-> "", ret |-> None,
                     raised |-> FALSE]
    /\ UNCHANGED <<webhook_url, posted, next_id, calls, pc, my_comm, sent, lock,
                   stats_read>>

\* tracker.start_communication(...) on the handler's reference.
HandlerStart(t) ==
    /\ pc[t] = "start"
    /\ IF RefIsCurrent(t)
       THEN StartCommunication(ThreadStartInput(t)) /\ UNCHANGED local
       ELSE /\ local' = [local EXCEPT !["discarded"] =
                           Some([communications |->
                                    With(@[1].communications, NewCommId,
                                         LLMCommunication(NewCommId, ThreadStartInput(t))),
                                 active_sessions |->
                                    With(@[1].active_sessions, t, NewCommId)])]
            /\ next_id' = next_id + 1
            /\ calls' = calls + 1
            /\ last_call' = [op |-> "start", comm_id |-> 0, agent_id |-> t,
                             ret |-> Some(NewCommId), raised |-> FALSE]
            /\ UNCHANGED <<communications, active_sessions, webhook_url, executor, posted>>
    /\ my_comm' = [my_comm EXCEPT ![t] = NewCommId]
    /\ pc' = [pc EXCEPT ![t] = "add"]
    /\ UNCHANGED <<sent, lock, stats_read>>

\* tracker.add_message(comm_id, ...) on the handler's reference.
HandlerAdd(t) ==
    /\ pc[t] = "add"
    /\ sent[t] = <<>>
    /\ LET m == TornMsgInput
           message == LLMMessage(NewMessageId, t, m)
           c == my_comm[t]
       IN /\ IF RefIsCurrent(t)
             THEN AddMessage(c, t, m) /\ UNCHANGED local
             ELSE /\ local' = [local EXCEPT !["discarded"] =
                       Some([@[1] EXCEPT !.communications =
                               IF c \in DOMAIN @
                               THEN [@ EXCEPT ![c] = AddedTo(@, message, m)] ELSE @])]
                  /\ calls' = calls + 1
                  /\ last_call' = [op |-> "add_message", comm_id |-> c, agent_id |-> "",
                                   ret |-> Some(NewMessageId), raised |-> FALSE]
                  /\ UNCHANGED <<communications, active_sessions, webhook_url, executor,
                                 posted, next_id>>
          /\ sent' = [sent EXCEPT ![t] = Append(@, message)]
    /\ UNCHANGED <<pc, my_comm, lock, stats_read>>

\* tracker.complete_communication(comm_id, ...) on the handler's reference.
HandlerComplete(t) ==
    /\ pc[t] = "add"
    /\ LET c == my_comm[t]
           inp == ThreadCompleteInput
       IN IF RefIsCurrent(t)
          THEN CompleteCommunication(c, inp) /\ UNCHANGED local
          ELSE /\ local' = [local EXCEPT !["discarded"] =
                    LET old == @[1]
                    IN IF c \notin DOMAIN old.communications THEN @
                       ELSE IF old.communications[c].messages = <<>>
                       THEN Some([old EXCEPT !.communications = Without(@, c)])
                       ELSE Some([communications |->
                                     [old.communications EXCEPT ![c] = Finalized(@, inp)],
                                  active_sessions |->
                                     Without(old.active_sessions,
                                             old.communications[c].agent_id)])]
               /\ calls' = calls + 1
               /\ last_call' = [op |-> "complete", comm_id |-> c, agent_id |-> "",
                                ret |-> None, raised |-> FALSE]
               /\ UNCHANGED <<communications, active_sessions, webhook_url, executor,
                              posted, next_id>>
    /\ pc' = [pc EXCEPT ![t] = "done"]
    /\ UNCHANGED <<my_comm, sent, lock, stats_read>>

ResetNext ==
    \/ \E t \in Threads : GetTracker(t)
    \/ ResetTracker
    \/ \E t \in Threads : HandlerStart(t)
    \/ \E t \in Threads : HandlerAdd(t)
    \/ \E t \in Threads : HandlerComplete(t)
    \/ CallGetStats

ResetSpec == ResetInit /\ [][ResetNext]_vars

\* Specification StampSpec: two callers start a session each while the clock
\* runs, add a message, complete the session (with or without error fields),
\* and get_communication_stats() is called in between.  start_communication
\* is taken apart as the code runs it: the LLMCommunication is constructed
\* first, and __post_init__ sets session_start = datetime.now() then; the
\* comm is put into the store afterwards, under the lock.  The ids of this
\* specification are given in the order of insertion, so that the order of
\* the ids is the order of self.communications.values().
\* local["clock"] holds the clock reading, local[t] the session_start of the
\* comm that thread t has constructed.
StampInit == IdInit

\* communication = LLMCommunication(...): session_start = datetime.now()
StampConstruct(t) ==
    /\ pc[t] = "start"
    /\ local' = [local EXCEPT ![t] = Some(local["clock"][1])]
    /\ pc' = [pc EXCEPT ![t] = "insert"]
    /\ UNCHANGED <<tracker_vars, my_comm, sent, lock, stats_read>>

\* with self._lock: self.communications[comm_id] = communication;
\* self.active_sessions[agent_id] = comm_id; return comm_id
StampInsert(t) ==
    /\ pc[t] = "insert"
    /\ LET inp == ThreadStartInput(t)
       IN /\ communications' =
                With(communications, NewCommId,
                     [LLMCommunication(NewCommId, inp) EXCEPT
                         !.session_start = local[t][1]])
          /\ active_sessions' = With(active_sessions, inp.agent_id, NewCommId)
          /\ last_call' = [op |-> "start", comm_id |-> 0, agent_id |-> inp.agent_id,
                           ret |-> Some(NewCommId), raised |-> FALSE]
    /\ my_comm' = [my_comm EXCEPT ![t] = NewCommId]
    /\ next_id' = next_id + 1
    /\ calls' = calls + 1
    /\ local' = [local EXCEPT ![t] = None]
    /\ pc' = [pc EXCEPT ![t] = "add"]
    /\ UNCHANGED <<webhook_url, executor, posted, sent, lock, stats_read>>

\* add_message(comm_id, ...)
StampAdd(t) ==
    /\ pc[t] = "add"
    /\ AddMessage(my_comm[t], t, TornMsgInput)
    /\ pc' = [pc EXCEPT ![t] = "complete"]
    /\ UNCHANGED <<my_comm, sent, local, lock, stats_read>>

\* complete_communication(comm_id, ...)
StampComplete(t) ==
    /\ pc[t] = "complete"
    /\ \E inp \in CompleteInputs : CompleteCommunication(my_comm[t], inp)
    /\ pc' = [pc EXCEPT ![t] = "done"]
    /\ UNCHANGED <<my_comm, sent, local, lock, stats_read>>

StampNext ==
    \/ Tick
    \/ \E t \in Threads : StampConstruct(t)
    \/ \E t \in Threads : StampInsert(t)
    \/ \E t \in Threads : StampAdd(t)
    \/ \E t \in Threads : StampComplete(t)
    \/ CallGetStats

StampSpec == StampInit /\ [][StampNext]_vars

\* Specification ScenarioSpec: the HTTP handler execute_autogen_scenario of
\* the agent backend, one request per thread, each for a scenario with one
\* agent whose agent_id is the thread's.  The handler starts a session for
\* the agent and wraps the agent under the same agent_id; while the scenario
\* runs, the wrapped agent may make tracked calls, each of which starts,
\* fills and completes a session of its own; at the end the handler looks
\* the agent_id up in tracker.active_sessions and completes what it finds.
\* my_comm[s] is the id of the session the handler started (the handler
\* itself does not keep it), sent[s] lists the ids the wrapped calls were
\* given, local[s] is the comm_id of the wrapped call in progress.
ScenarioStartInput(s) == [ThreadStartInput(s) EXCEPT !.framework = "autogen"]

\* complete_communication(comm_id, final_response="", response_time_ms=0,
\* error_message=str(e))
ScenarioErrorInput ==
    [final_response |-> Some(""), response_time_ms |-> 0, confidence_score |-> None,
     error_message |-> Some("Scenario failed"), error_type |-> None,
     error_code |-> None, retry_count |-> 0]

\* What a failing tracked call passes to complete_communication.
WrappedErrorInput == CHOOSE inp \in CompleteInputs : inp.error_message # None

ScenarioInit ==
    /\ TrackerInit
    /\ pc = [s \in Threads |-> "start"]
    /\ my_comm = [s \in Threads |-> 0]
    /\ sent = [s \in Threads |-> <<>>]
    /\ local = [s \in Threads |-> None]
    /\ lock = None
    /\ stats_read = None

\* tracker.start_communication(agent_id=agent_id, ...) and
\* autogen_wrapper.wrap_agent(agent, agent_id=agent_id, ...); then the
\* scenario runs.
ScenarioStart(s) ==
    /\ pc[s] = "start"
    /\ StartCommunication(ScenarioStartInput(s))
    /\ my_comm' = [my_comm EXCEPT ![s] = NewCommId]
    /\ pc' = [pc EXCEPT ![s] = "run"]
    /\ UNCHANGED <<sent, local, lock, stats_read>>

\* tracked_generate_reply: comm_id = self.tracker.start_communication(
\* agent_id=agent_id, ...)
WrappedStart(s) ==
    /\ pc[s] = "run"
    /\ Len(sent[s]) < MaxWrapped
    /\ StartCommunication(ScenarioStartInput(s))
    /\ local' = [local EXCEPT ![s] = Some(NewCommId)]
    /\ sent' = [sent EXCEPT ![s] = Append(@, NewCommId)]
    /\ pc' = [pc EXCEPT ![s] = "incoming"]
    /\ UNCHANGED <<my_comm, lock, stats_read>>

\* if messages: for msg in messages: self.tracker.add_message(comm_id, ...),
\* then the underlying call is made.
WrappedLog(s) ==
    /\ pc[s] = "incoming"
    /\ AddMessage(local[s][1], "assess patient",
                  [role |-> "user", tokens |-> None,
                   function_call |-> None, tool_calls |-> <<>>])
    /\ pc' = [pc EXCEPT ![s] = "llm_call"]
    /\ UNCHANGED <<my_comm, sent, local, lock, stats_read>>

\* The message list is empty: nothing is logged before the underlying call.
WrappedNoLog(s) ==
    /\ pc[s] = "incoming"
    /\ pc' = [pc EXCEPT ![s] = "llm_call"]
    /\ UNCHANGED <<tracker_vars, my_comm, sent, local, lock, stats_read>>

\* The underlying call returns: add_message(comm_id, "assistant", ...)
WrappedReply(s) ==
    /\ pc[s] = "llm_call"
    /\ AddMessage(local[s][1], "recommend follow-up",
                  [role |-> "assistant", tokens |-> None,
                   function_call |-> None, tool_calls |-> <<>>])
    /\ pc' = [pc EXCEPT ![s] = "replied"]
    /\ UNCHANGED <<my_comm, sent, local, lock, stats_read>>

\* complete_communication(comm_id, final_response=response_content, ...);
\* return reply: the scenario goes on.
WrappedComplete(s) ==
    /\ pc[s] = "replied"
    /\ CompleteCommunication(local[s][1], ThreadCompleteInput)
    /\ local' = [local EXCEPT ![s] = None]
    /\ pc' = [pc EXCEPT ![s] = "run"]
    /\ UNCHANGED <<my_comm, sent, lock, stats_read>>

\* The underlying call raises: complete_communication(comm_id, ..., error
\* fields); raise e, which ends execute_scenario with the exception.
WrappedRaise(s) ==
    /\ pc[s] = "llm_call"
    /\ CompleteCommunication(local[s][1], WrappedErrorInput)
    /\ local' = [local EXCEPT ![s] = None]
    /\ pc' = [pc EXCEPT ![s] = "except"]
    /\ UNCHANGED <<my_comm, sent, lock, stats_read>>

\* execute_scenario returns: comm_id = tracker.active_sessions.get(agent_id);
\* if comm_id: tracker.complete_communication(comm_id, ..., response_time_ms=
\* int((datetime.now() - active_scenarios[scenario_id]["start_time"])...)).
\* start_time was stored as datetime.now().isoformat(), a str, so building
\* the arguments raises TypeError before complete_communication is called,
\* and the handler goes to its except branch.  With no index entry the
\* handler returns.
ScenarioReturn(s) ==
    /\ pc[s] = "run"
    /\ pc' = [pc EXCEPT ![s] = IF s \in DOMAIN active_sessions THEN "except" ELSE "done"]
    /\ UNCHANGED <<tracker_vars, my_comm, sent, local, lock, stats_read>>

\* execute_scenario raises for a reason of its own.
ScenarioRaise(s) ==
    /\ pc[s] = "run"
    /\ pc' = [pc EXCEPT ![s] = "except"]
    /\ UNCHANGED <<tracker_vars, my_comm, sent, local, lock, stats_read>>

\* except Exception as e: comm_id = tracker.active_sessions.get(agent_id);
\* if comm_id: tracker.complete_communication(comm_id, final_response="",
\* response_time_ms=0, error_message=str(e)); raise HTTPException(500).
ScenarioExcept(s) ==
    /\ pc[s] = "except"
    /\ IF s \in DOMAIN active_sessions
       THEN CompleteCommunication(active_sessions[s], ScenarioErrorInput)
       ELSE UNCHANGED tracker_vars
    /\ pc' = [pc EXCEPT ![s] = "done"]
    /\ UNCHANGED <<my_comm, sent, local, lock, stats_read>>

ScenarioNext ==
    \/ \E s \in Threads : ScenarioStart(s)
    \/ \E s \in Threads : WrappedStart(s)
    \/ \E s \in Threads : WrappedLog(s)
    \/ \E s \in Threads : WrappedNoLog(s)
    \/ \E s \in Threads : WrappedReply(s)
    \/ \E s \in Threads : WrappedComplete(s)
    \/ \E s \in Threads : WrappedRaise(s)
    \/ \E s \in Threads : ScenarioReturn(s)
    \/ \E s \in Threads : ScenarioRaise(s)
    \/ \E s \in Threads : ScenarioExcept(s)

ScenarioSpec == ScenarioInit /\ [][ScenarioNext]_vars

\* Specification EndpointSpec: the /comprehensive endpoints of the AutoGen
\* and the CrewAI service (run_comprehensive_conversation_compat,
\* run_comprehensive_assessment_compat), one request per thread, and the
\* get_quota_exceeded_details() call of /communications/stats.  The handler
\* starts a session, awaits the assessment, and completes the session: with
\* the summary when the assessment returns, with the classified error when
\* it raises.  Neither service calls add_message or wraps its agents.
\* local[r] holds how the assessment of request r ended.
EndpointInit ==
    /\ TrackerInit
    /\ webhook_url = None
    /\ pc = [r \in Threads |-> "start"]
    /\ my_comm = [r \in Threads |-> 0]
    /\ sent = [r \in Threads |-> <<>>]
    /\ local = [r \in Threads |-> None]
    /\ lock = None
    /\ stats_read = None

\* comm_id = tracker.start_communication(...)
EndpointStart(r) ==
    /\ pc[r] = "start"
    /\ StartCommunication(ThreadStartInput(r))
    /\ my_comm' = [my_comm EXCEPT ![r] = NewCommId]
    /\ pc' = [pc EXCEPT ![r] = "assess"]
    /\ UNCHANGED <<sent, local, lock, stats_read>>

\* The assessment returns: tracker.complete_communication(comm_id,
\* final_response=str(result.get("summary", "")), response_time_ms=...,
\* confidence_score=0.85), written here in hundredths.
AssessReturn(r) ==
    /\ pc[r] = "assess"
    /\ CompleteCommunication(my_comm[r],
          [final_response |-> Some("summary"), response_time_ms |-> ResponseTimeMs,
           confidence_score |-> Some(85), error_message |-> None,
           error_type |-> None, error_code |-> None, retry_count |-> 0])
    /\ local' = [local EXCEPT ![r] = Some([kind |-> "return"])]
    /\ pc' = [pc EXCEPT ![r] = "done"]
    /\ UNCHANGED <<my_comm, sent, lock, stats_read>>

\* The assessment raises.
AssessRaise(r) ==
    /\ pc[r] = "assess"
    /\ \E e \in RaisedExceptions :
          local' = [local EXCEPT ![r] = Some([kind |-> "raise", value |-> e])]
    /\ pc' = [pc EXCEPT ![r] = "except"]
    /\ UNCHANGED <<tracker_vars, my_comm, sent, lock, stats_read>>

\* except Exception as e: error_message, error_type, error_code =
\* tracker.parse_openai_error(e); tracker.complete_communication(comm_id,
\* final_response="", ..., error fields); raise HTTPException(500).
EndpointExcept(r) ==
    /\ pc[r] = "except"
    /\ LET parsed == ParseOpenAIError(local[r][1].value)
       IN CompleteCommunication(my_comm[r],
             [final_response |-> Some(""), response_time_ms |-> ResponseTimeMs,
              confidence_score |-> None, error_message |-> Some(parsed[1]),
              error_type |-> Some(parsed[2]), error_code |-> parsed[3],
              retry_count |-> 0])
    /\ pc' = [pc EXCEPT ![r] = "done"]
    /\ UNCHANGED <<my_comm, sent, local, lock, stats_read>>

EndpointNext ==
    \/ \E r \in Threads : EndpointStart(r)
    \/ \E r \in Threads : AssessReturn(r)
    \/ \E r \in Threads : AssessRaise(r)
    \/ \E r \in Threads : EndpointExcept(r)
    \/ CallGetStats
    \/ CallGetQuotaExceededDetails

EndpointSpec == EndpointInit /\ [][EndpointNext]_vars

\* ------------------------------------------------------------------ claims
RECURSIVE SumTokens(_, _)
\* The sum of the token counts of the messages of msgs whose role is in roles
\* (a message given without tokens counts 0).
SumTokens(msgs, roles) ==
    IF msgs = <<>> THEN 0
    ELSE LET m == Head(msgs)
         IN (IF m.role \in roles /\ m.tokens # None THEN m.tokens[1] ELSE 0)
            + SumTokens(Tail(msgs), roles)

Stored == DOMAIN communications
IsCompleted(comm) == comm.session_end # None

\* C1: in every reachable state every stored Communication has
\* total_tokens = total_input_tokens + total_output_tokens.
C1_TotalIsInputPlusOutput ==
    \A c \in Stored :
        communications[c].total_tokens =
            communications[c].total_input_tokens + communications[c].total_output_tokens

\* A completed Communication that holds input tokens, output tokens and a
\* function-role message with a token count.
C1_Witness ==
    \E c \in Stored :
        /\ IsCompleted(communications[c])
        /\ communications[c].total_input_tokens > 0
        /\ communications[c].total_output_tokens > 0
        /\ \E i \in 1..Len(communications[c].messages) :
              /\ communications[c].messages[i].role = "function"
              /\ communications[c].messages[i].tokens # None

\* C2: total_input_tokens is the sum of the token counts of the user and
\* system messages, total_output_tokens the sum over the assistant messages,
\* and every add_message on a stored id appends its message (so a function
\* or token-less message is in the list and in neither sum).
C2_TotalsAreSumsByRole ==
    /\ \A c \in Stored :
          /\ communications[c].total_input_tokens =
                SumTokens(communications[c].messages, {"user", "system"})
          /\ communications[c].total_output_tokens =
                SumTokens(communications[c].messages, {"assistant"})
    /\ (last_call.op = "add_message" /\ last_call.comm_id \in Stored) =>
          LET msgs == communications[last_call.comm_id].messages
          IN msgs # <<>> /\ Some(msgs[Len(msgs)].id) = last_call.ret

\* The last call appended a function-role message with tokens to a
\* Communication that already holds a token-less message and counted tokens.
C2_Witness ==
    /\ last_call.op = "add_message"
    /\ last_call.comm_id \in Stored
    /\ LET comm == communications[last_call.comm_id]
           msgs == comm.messages
       IN /\ Len(msgs) >= 3
          /\ msgs[Len(msgs)].role = "function"
          /\ msgs[Len(msgs)].tokens # None
          /\ \E i \in 1..Len(msgs) : msgs[i].tokens = None
          /\ comm.total_input_tokens + comm.total_output_tokens > 0

\* The active-session index without the entries that point to comm id c.
Purged(sessions, c) ==
    [a \in {x \in DOMAIN sessions : sessions[x] # c} |-> sessions[a]]

\* The ids of the Communications that export('json') returns.
ExportedIds(comms) ==
    LET data == ExportCommunications(comms, "json").data
    IN {data[i].id : i \in 1..Len(data)}

\* C3: complete on a stored Communication with zero messages removes it:
\* afterwards get_communication returns not-found, export does not list it,
\* and get_stats is what it would be without any trace of it.
C3_EmptyCompleteLeavesNoTrace ==
    [][\A c \in Stored :
         (last_call'.op = "complete" /\ last_call'.comm_id = c
            /\ communications[c].messages = <<>>)
         => /\ GetCommunication(communications', c) = None
            /\ c \notin ExportedIds(communications')
            /\ GetStats(communications', active_sessions')
                 = GetStats(communications', Purged(active_sessions', c))]_vars

\* C4: when complete finalizes a non-empty Communication c of agent a, the
\* index entry of a is removed if it points to c and left unchanged if it
\* points to another id.
C4_IndexRemovedOnlyIfOwn ==
    [][\A c \in Stored :
         (last_call'.op = "complete" /\ last_call'.comm_id = c
            /\ communications[c].messages # <<>>)
         => LET a == communications[c].agent_id
            IN /\ (a \in DOMAIN active_sessions /\ active_sessions[a] = c)
                    => a \notin DOMAIN active_sessions'
               /\ (a \in DOMAIN active_sessions /\ active_sessions[a] # c)
                    => /\ a \in DOMAIN active_sessions'
                       /\ active_sessions'[a] = active_sessions[a]]_vars

\* The fields of a Communication that completion is said to freeze.
Frozen(comm) ==
    <<comm.messages, comm.total_input_tokens, comm.total_output_tokens,
      comm.total_tokens, comm.cost_estimate, comm.session_end,
      comm.final_response, comm.response_time_ms, comm.error_message,
      comm.error_type, comm.error_code, comm.retry_count>>

\* C5: once a non-empty Communication is completed, no later add_message or
\* complete on its id changes its messages, totals, cost, session_end,
\* final_response, response_time_ms, error fields or retry_count.
C5_ImmutableAfterCompletion ==
    [][\A c \in Stored :
         (IsCompleted(communications[c]) /\ c \in DOMAIN communications')
         => Frozen(communications'[c]) = Frozen(communications[c])]_vars

\* C6: a Communication completed with at least one message stays in the
\* store under every later call, and a step removes a record only when it is
\* a complete on that record with zero messages.
C6_CompletedStaysStored ==
    [][\A c \in Stored :
         /\ IsCompleted(communications[c])
              => GetCommunication(communications', c) # None
         /\ c \notin DOMAIN communications'
              => /\ last_call'.op = "complete" /\ last_call'.comm_id = c
                 /\ communications[c].messages = <<>>]_vars

\* A completed Communication is still stored right after a repeated complete
\* on its own id: both finalizations submitted a webhook task for it.
C6_Witness ==
    /\ last_call.op = "complete"
    /\ last_call.comm_id \in Stored
    /\ IsCompleted(communications[last_call.comm_id])
    /\ GetCommunication(communications, last_call.comm_id) # None
    /\ executor = <<last_call.comm_id, last_call.comm_id>>

\* C7: complete with a comm_id that is not in the store raises nothing,
\* leaves the store and the index unchanged and submits no webhook.
C7_CompleteUnknownIsNoOp ==
    [][(last_call'.op = "complete" /\ last_call'.comm_id \notin Stored)
       => /\ ~last_call'.raised
          /\ communications' = communications
          /\ active_sessions' = active_sessions
          /\ executor' = executor]_vars

\* complete was just called with an id no start returned, on a tracker that
\* has a webhook URL, a stored record and an index entry.
C7_Witness ==
    /\ last_call.op = "complete"
    /\ last_call.comm_id = 0
    /\ webhook_url # None
    /\ Stored # {}
    /\ DOMAIN active_sessions # {}

\* C8: add_message with a comm_id that is not in the store returns a
\* generated message id, raises nothing, and leaves the store, every stored
\* Communication and the index unchanged.
C8_AddToUnknownIsNoOp ==
    [][(last_call'.op = "add_message" /\ last_call'.comm_id \notin Stored)
       => /\ last_call'.ret = Some(NewMessageId)
          /\ ~last_call'.raised
          /\ communications' = communications
          /\ active_sessions' = active_sessions]_vars

\* add_message was just called with an id that a start returned and that a
\* zero-message completion removed, while another record is stored.
C8_Witness ==
    /\ last_call.op = "add_message"
    /\ last_call.comm_id \in 1..next_id
    /\ last_call.comm_id \notin Stored
    /\ last_call.ret # None
    /\ Stored # {}

\* C9: start stores a new open Communication with no messages and
\* session_end unset, points the agent's index entry at the new id (also
\* when the agent had an entry), and leaves every stored Communication
\* unchanged; complete on a stored non-empty id finalizes it whatever the
\* index says.
C9_StartOverwritesIndexOnly ==
    [][/\ last_call'.op = "start"
          => LET c == last_call'.ret[1]
                 a == last_call'.agent_id
             IN /\ ~last_call'.raised
                /\ c \notin Stored
                /\ c \in DOMAIN communications'
                /\ communications'[c].messages = <<>>
                /\ communications'[c].session_end = None
                /\ communications'[c].agent_id = a
                /\ active_sessions'[a] = c
                /\ \A d \in Stored :
                      d \in DOMAIN communications'
                      /\ communications'[d] = communications[d]
       /\ \A c \in Stored :
            (last_call'.op = "complete" /\ last_call'.comm_id = c
               /\ communications[c].messages # <<>>)
            => /\ c \in DOMAIN communications'
               /\ communications'[c] = Finalized(communications[c],
                     [f \in {"final_response", "response_time_ms", "confidence_score",
                             "error_message", "error_type", "error_code",
                             "retry_count"} |-> communications'[c][f]])]_vars

\* complete was just called on an open earlier Communication of an agent
\* whose index entry a later start had overwritten; it is now completed.
C9_Witness ==
    /\ last_call.op = "complete"
    /\ \E c, d \in Stored :
          /\ c = last_call.comm_id
          /\ c < d
          /\ communications[c].agent_id = communications[d].agent_id
          /\ IsCompleted(communications[c])
          /\ ~IsCompleted(communications[d])
          /\ Len(communications[c].messages) = 1
          /\ calls = 4

\* C10: when a session thread is done, the Communication that its start
\* returned is stored and completed, its message list is exactly the list
\* of messages the thread added, and its token totals are the sums over
\* that list.
C10_SessionsAreIsolated ==
    \A t \in DOMAIN pc :
        pc[t] = "done"
        => /\ my_comm[t] \in Stored
           /\ LET comm == communications[my_comm[t]]
              IN /\ IsCompleted(comm)
                 /\ comm.agent_id = t
                 /\ comm.messages = sent[t]
                 /\ \A i \in 1..Len(comm.messages) : comm.messages[i].content = t
                 /\ comm.total_input_tokens = SumTokens(sent[t], {"user", "system"})
                 /\ comm.total_output_tokens = SumTokens(sent[t], {"assistant"})
                 /\ comm.total_tokens = comm.total_input_tokens + comm.total_output_tokens

\* Both threads are done and their calls were interleaved: each added a
\* message between two messages of the other or after the other started.
C10_Witness ==
    /\ \A t \in Threads : t \in DOMAIN pc /\ pc[t] = "done" /\ Len(sent[t]) = MaxSessionMsgs
    /\ \E t, u \in Threads :
          /\ t # u
          /\ sent[t][1].id < sent[u][1].id
          /\ sent[u][1].id < sent[t][Len(sent[t])].id

\* The messages of msgs that caller t added, in list order.
AddedBy(msgs, t) == LET Mine(x) == x.content = t IN SelectSeq(msgs, Mine)

RECURSIVE TotalLen(_, _)
TotalLen(f, S) ==
    IF S = {} THEN 0
    ELSE LET t == CHOOSE x \in S : TRUE IN Len(f[t]) + TotalLen(f, S \ {t})

\* C11: when every thread that adds to the shared open comm id has
\* returned, the message list holds each added message exactly once, each
\* caller's messages in the order the caller added them, and the token
\* totals are the sums over all added messages.
C11_NoLostUpdate ==
    (\A t \in DOMAIN pc : pc[t] = "done")
    => \A c \in {my_comm[t] : t \in DOMAIN pc} :
         /\ c \in Stored
         /\ LET comm == communications[c]
            IN /\ Len(comm.messages) = TotalLen(sent, DOMAIN sent)
               /\ \A t \in DOMAIN sent : AddedBy(comm.messages, t) = sent[t]
               /\ \A i, j \in 1..Len(comm.messages) :
                     i # j => comm.messages[i].id # comm.messages[j].id
               /\ comm.total_input_tokens = SumTokens(comm.messages, {"user", "system"})
               /\ comm.total_output_tokens = SumTokens(comm.messages, {"assistant"})
               /\ comm.total_tokens =
                     SumTokens(comm.messages, {"user", "system", "assistant"})

\* Both threads are done, each added the most messages it may, the calls
\* overlapped (the list is not one caller's messages followed by the
\* other's in id order) and both token buckets were updated.
C11_Witness ==
    /\ DOMAIN pc = Threads
    /\ \A t \in Threads : pc[t] = "done" /\ Len(sent[t]) = MaxSessionMsgs
    /\ \E c \in Stored :
          /\ \E i \in 1..(Len(communications[c].messages) - 1) :
                communications[c].messages[i].id > communications[c].messages[i + 1].id
          /\ communications[c].total_input_tokens > 0
          /\ communications[c].total_output_tokens > 0

\* C12: get_communication_stats never reports a torn aggregate: what it
\* returns while a complete_communication is in progress equals the
\* statistics of the store before that call or of the store after it.
C12_StatsNeverTorn ==
    stats_read # None => stats_read[1].reported \in stats_read[1].consistent

\* C13: a complete call submits a webhook notification for its comm exactly
\* when it finalizes a stored comm with at least one message and a webhook
\* URL is configured; a complete of an unknown id, of a comm without
\* messages, or without a URL submits none, and neither does start or
\* add_message.
C13_WebhookIffFinalizesNonEmpty ==
    [][/\ last_call'.op = "complete" =>
            LET c == last_call'.comm_id
            IN IF /\ c \in DOMAIN communications
                  /\ communications[c].messages # <<>>
                  /\ webhook_url # None
               THEN executor' = Append(executor, c)
               ELSE executor' = executor
       /\ last_call'.op \in {"start", "add_message"} => executor' = executor]_vars

\* A complete call has just submitted the notification of its comm, and an
\* earlier complete of a comm without messages has submitted none.
C13_Witness ==
    /\ last_call.op = "complete"
    /\ webhook_url # None
    /\ executor = <<last_call.comm_id>>
    /\ next_id = 2
    /\ Cardinality(DOMAIN communications) = 1

\* C14: over any sequence of operations at most one notification is
\* dispatched for each communication id.
C14_AtMostOneWebhookPerComm ==
    \A c \in DOMAIN posted : posted[c] <= 1

\* C15: a webhook dispatch that fails (the POST raises, or answers with a
\* status other than 200) raises nothing, is not submitted again, and leaves
\* the store, its completed comm and the active-session index as they were.
C15_FailedWebhookOnlyLogged ==
    [][(last_call'.op = "webhook" /\ last_call'.ret # Some("200") /\ executor # <<>>)
          => /\ ~last_call'.raised
             /\ executor' = Tail(executor)
             /\ communications' = communications
             /\ active_sessions' = active_sessions]_vars

\* The second dispatch for a completed stored comm has just failed with an
\* exception, and the executor holds no further task.
C15_Witness ==
    /\ last_call.op = "webhook"
    /\ last_call.ret = Some("exception")
    /\ last_call.comm_id \in DOMAIN communications
    /\ IsCompleted(communications[last_call.comm_id])
    /\ posted[last_call.comm_id] = 2
    /\ executor = <<>>

\* C17: a complete call that finalizes a stored comm with messages leaves its
\* cost_estimate equal to input tokens times the input price plus output
\* tokens times the output price, per 1000 tokens, of the comm's provider and
\* model, over the token totals the comm has at that call; the cost is 0 when
\* the provider or the model has no price.  (Units of 1e-7 dollar: gpt-4 is
\* 0.03 and 0.06 dollar per 1000 tokens, so 1000 and 1000 tokens cost 0.09.)
C17_CostFormula ==
    [][\A c \in DOMAIN communications :
         (/\ last_call'.op = "complete" /\ last_call'.comm_id = c
          /\ communications[c].messages # <<>>)
         => LET old == communications[c]
                Price(p, m) ==
                    IF p # "openai" THEN <<0, 0>>
                    ELSE CASE m = "gpt-4" -> <<300, 600>>
                           [] m = "gpt-4-turbo" -> <<100, 300>>
                           [] m = "gpt-3.5-turbo" -> <<15, 20>>
                           [] OTHER -> <<0, 0>>
                pr == Price(old.provider, old.model)
            IN /\ c \in DOMAIN communications'
               /\ ~last_call'.raised
               /\ communications'[c].cost_estimate =
                     old.total_input_tokens * pr[1] + old.total_output_tokens * pr[2]
               /\ (old.provider = "openai" /\ old.model = "gpt-4"
                   /\ old.total_input_tokens = 1000 /\ old.total_output_tokens = 1000)
                  => communications'[c].cost_estimate = 900000]_vars

\* A gpt-4 comm with 1000 input and 1000 output tokens has just been completed
\* at a cost of 0.09 dollar.
C17_Witness ==
    /\ last_call.op = "complete"
    /\ last_call.comm_id \in DOMAIN communications
    /\ LET comm == communications[last_call.comm_id]
       IN /\ comm.provider = "openai" /\ comm.model = "gpt-4"
          /\ comm.total_input_tokens = 1000 /\ comm.total_output_tokens = 1000
          /\ comm.cost_estimate = 900000

\* C18: every stored comm that is not completed has cost_estimate 0 and has
\* no final_response, error_message, error_type or error_code.
C18_OpenHasNoOutcome ==
    \A c \in Stored :
       ~IsCompleted(communications[c])
       => /\ communications[c].cost_estimate = 0
          /\ communications[c].final_response = None
          /\ communications[c].error_message = None
          /\ communications[c].error_type = None
          /\ communications[c].error_code = None

\* An open comm of a priced model holds tokens, next to a completed comm.
C18_Witness ==
    \E c, d \in Stored :
       /\ ~IsCompleted(communications[c])
       /\ communications[c].model = "gpt-4"
       /\ communications[c].total_tokens > 0
       /\ IsCompleted(communications[d])
       /\ communications[d].error_message # None

\* The rules of the error classifier in their priority order: the substrings
\* that make a rule match, and the type and code the rule gives.
ClassifierRules ==
    << [needles |-> {"insufficient_quota", "quota"},
        type |-> "quota_exceeded", code |-> 429],
       [needles |-> {"rate limit", "429"},
        type |-> "rate_limit", code |-> 429],
       [needles |-> {"invalid api key", "unauthorized", "401"},
        type |-> "auth_failed", code |-> 401],
       [needles |-> {"api key specified is not a valid openai format"},
        type |-> "invalid_key_format", code |-> 400],
       [needles |-> {"400"}, type |-> "bad_request", code |-> 400],
       [needles |-> {"500"}, type |-> "server_error", code |-> 500] >>

\* The rules that match a message, without regard to case.
MatchedRules(message) ==
    LET lower == Lower(message)
    IN {i \in 1..Len(ClassifierRules) :
          \E n \in ClassifierRules[i].needles : Contains(n, lower)}

\* C19: the classifier returns the message unchanged together with the type
\* and code of the first rule, in priority order, among the rules whose
\* substrings occur in the message (case-insensitively); when no rule
\* matches it returns unknown_error with the exception's status code, or
\* with no code when the exception has none.
C19_FirstMatchWins ==
    pc = [t \in {"classifier"} |-> "parsed"]
    => LET exception == local["classifier"][1]
           result == last_call.ret[1]
           matched == MatchedRules(exception.message)
       IN /\ result[1] = exception.message
          /\ IF matched = {}
             THEN result[2] = "unknown_error" /\ result[3] = exception.status_code
             ELSE LET i == CHOOSE i \in matched : \A j \in matched : i <= j
                  IN /\ result[2] = ClassifierRules[i].type
                     /\ result[3] = Some(ClassifierRules[i].code)

\* A message in which both the quota rule and the authentication rule match,
\* written with capitals, has been classified as quota_exceeded.
C19_Witness ==
    /\ pc = [t \in {"classifier"} |-> "parsed"]
    /\ local["classifier"][1].message = "status 401; Quota exceeded"
    /\ local["classifier"][1].status_code = Some(503)
    /\ last_call.ret = Some(<<"status 401; Quota exceeded", "quota_exceeded", Some(429)>>)

\* The steps during which a thread waits for the network: the underlying LLM
\* call of an adapter, the POST of a webhook.
NetworkBound == {"llm_call", "posting"}

\* C16: no thread that is making the underlying LLM call or the webhook POST
\* holds the store lock, and whoever holds the lock is inside the locked
\* section of complete_communication, which has no such step; so the lock
\* is never waited for across a network call.
C16_NoNetworkUnderLock ==
    /\ \A p \in DOMAIN pc : pc[p] \in NetworkBound => lock # Some(p)
    /\ lock # None => /\ lock[1] \in Threads
                      /\ pc[lock[1]] \in {"end", "fields", "index"}

\* The worker is in the middle of the POST for a1's comm while a2 is inside
\* the locked section of its own complete call.
C16_Witness ==
    /\ pc["worker"] = "posting"
    /\ pc["a1"] = "done"
    /\ executor = <<my_comm["a1"]>>
    /\ lock = Some("a2")
    /\ pc["a2"] = "fields"

\* C20: when a wrapped call has ended, it has returned the value the
\* underlying call returned, or raised the exception the underlying call
\* raised after calling complete_communication with the error fields; this
\* holds for the AutoGen and for the CrewAI adapter.
C20_AdapterIsObservational ==
    \A t \in Threads :
       pc[t] = "done"
       => /\ local[t][1].wrapped = local[t][1].underlying
          /\ local[t][1].underlying[1].kind = "raise"
             => local[t][1].inp.error_message # None

\* Both wrapped calls have ended: the AutoGen one has returned the dict its
\* underlying call returned, the CrewAI one has raised the exception its
\* underlying call raised.
C20_Witness ==
    /\ pc["a1"] = "done" /\ pc["a2"] = "done"
    /\ local["a1"][1].wrapped = Some([kind |-> "return",
                                      value |-> [type |-> "dict", content |-> "ok"]])
    /\ local["a2"][1].wrapped = Some([kind |-> "raise",
                                      value |-> [message |-> "Quota exceeded",
                                                 status_code |-> Some(429)]])

\* C21: when the underlying call has raised, the adapter calls
\* complete_communication with error_message, error_type and error_code
\* equal to the message, the type and the code that parse_openai_error gives
\* for that exception, in the AutoGen adapter as in the CrewAI adapter.
C21_ErrorFieldsFromClassifier ==
    \A t \in Threads :
       (/\ pc[t] \in {"complete", "end", "fields", "index", "completed", "done"}
        /\ local[t][1].underlying[1].kind = "raise")
       => LET parsed == ParseOpenAIError(local[t][1].underlying[1].value)
          IN /\ local[t][1].inp.error_message = Some(parsed[1])
             /\ local[t][1].inp.error_type = Some(parsed[2])
             /\ local[t][1].inp.error_code = parsed[3]

\* C22: after a wrapped call has raised, the store holds the Communication
\* of that call, completed, with a non-empty error_message, whatever the
\* incoming messages were.
C22_FailureIsRecorded ==
    \A t \in Threads :
       (pc[t] = "done" /\ local[t][1].wrapped[1].kind = "raise")
       => /\ my_comm[t] \in DOMAIN communications
          /\ IsCompleted(communications[my_comm[t]])
          /\ communications[my_comm[t]].error_message \notin {None, Some("")}

RECURSIVE SumField(_, _)
\* The sum of communications[c][field] over the ids c in S.
SumField(S, field) ==
    IF S = {} THEN 0
    ELSE LET c == CHOOSE c \in S : TRUE
         IN communications[c][field] + SumField(S \ {c}, field)

\* The stored Communications that are completed / completed with an error.
CompletedIds == {c \in Stored : IsCompleted(communications[c])}
ErrorIds == {c \in CompletedIds : communications[c].error_message \notin {None, Some("")}}

\* C23: when at least one stored Communication is completed, get_stats
\* reports total = all stored ones, completed = those with session_end set,
\* active = the size of the active-session index, errors = the completed
\* ones with a non-empty error_message, total_tokens and total_cost summed
\* over the completed ones, and average_response_time_ms = the mean of
\* response_time_ms over the completed ones, truncated to an integer.
C23_StatsOverCompleted ==
    (last_call.op = "get_stats" /\ CompletedIds # {})
    => LET stats == last_call.ret[1]
           n == Cardinality(CompletedIds)
       IN /\ stats.total = Cardinality(Stored)
          /\ stats.completed = n
          /\ stats.active = Cardinality(DOMAIN active_sessions)
          /\ stats.errors = Cardinality(ErrorIds)
          /\ stats.total_tokens = SumField(CompletedIds, "total_tokens")
          /\ stats.total_cost = SumField(CompletedIds, "cost_estimate")
          /\ stats.average_response_time_ms * n
                <= SumField(CompletedIds, "response_time_ms")
          /\ SumField(CompletedIds, "response_time_ms")
                < (stats.average_response_time_ms + 1) * n

\* get_stats has been called on a store that holds a Communication completed
\* with an error and an open one that has tokens.
C23_Witness ==
    /\ last_call.op = "get_stats"
    /\ Cardinality(CompletedIds) = 1
    /\ Cardinality(ErrorIds) = 1
    /\ \E c \in Stored \ CompletedIds : communications[c].total_tokens > 0
    /\ last_call.ret[1].total = 2
    /\ last_call.ret[1].total_tokens > 0

\* C24: when no stored Communication is completed, get_stats returns exactly
\* {total: 0, completed: 0} and raises nothing.
C24_StatsMinimalShape ==
    (last_call.op = "get_stats" /\ CompletedIds = {})
    => /\ ~last_call.raised
       /\ last_call.ret = Some([total |-> 0, completed |-> 0])

\* get_stats has been called on a store that holds open sessions only.
C24_Witness ==
    /\ last_call.op = "get_stats"
    /\ Cardinality(Stored) = 2
    /\ CompletedIds = {}
    /\ \E c \in Stored : communications[c].messages # <<>>

\* C25: export with the format "json" raises nothing and returns every
\* stored Communication exactly once, each with its messages in stored
\* order; export with another format raises an error that names the format.
\* (That export changes no state is in the read actions themselves.)
C25_ExportReturnsStore ==
    last_call.op = "export"
    => LET result == last_call.ret[1]
           format == last_call.agent_id
       IN IF format = "json"
          THEN /\ ~last_call.raised
               /\ Len(result.data) = Cardinality(Stored)
               /\ \A c \in Stored :
                     \E i \in 1..Len(result.data) : result.data[i] = communications[c]
          ELSE /\ last_call.raised
               /\ Contains(format, result.error)

\* C26: the id a start call returns differs from the id returned by every
\* other start call, of the same caller or of another, also within one
\* clock second; no start replaces a Communication that is in the store.
C26_StartIdsUnique ==
    \A t, u \in DOMAIN sent :
       \A i \in 1..Len(sent[t]), j \in 1..Len(sent[u]) :
          (t # u \/ i # j) => sent[t][i] # sent[u][j]

\* C27: reset_tracker() leaves the process-wide tracker with an empty store
\* and an empty index, and from then on no call takes effect on the tracker
\* that was discarded: whatever a caller does after the reset is done to the
\* state that the process reports from.
C27_ResetIsAtomic ==
    [][/\ last_call'.op = "reset" /\ local["discarded"] = None
          => DOMAIN communications' = {} /\ DOMAIN active_sessions' = {}
       /\ local["discarded"] # None => local'["discarded"] = local["discarded"]]_vars

\* The stored Communications whose error_type is quota_exceeded.
QuotaErrorIds == {c \in DOMAIN communications :
                     communications[c].error_type = Some("quota_exceeded")}

\* C28: get_quota_exceeded_details returns has_quota_errors = false when no
\* stored Communication has error_type quota_exceeded; otherwise it returns
\* how many there are, the details of one whose session_start is the latest,
\* and the set of their agent names, each name once.
C28_QuotaDetails ==
    last_call.op = "get_quota_exceeded_details" =>
        LET r == last_call.ret[1]
        IN IF QuotaErrorIds = {}
           THEN r = [has_quota_errors |-> FALSE]
           ELSE /\ r.has_quota_errors
                /\ r.total_quota_errors = Cardinality(QuotaErrorIds)
                /\ \E c \in QuotaErrorIds :
                      /\ \A d \in QuotaErrorIds :
                            communications[d].session_start
                               <= communications[c].session_start
                      /\ r.latest_quota_error.timestamp = communications[c].session_start
                      /\ r.latest_quota_error.agent_name = communications[c].agent_name
                      /\ r.latest_quota_error.error_message
                            = communications[c].error_message
                /\ \A n \in r.affected_agents :
                      \E c \in QuotaErrorIds : communications[c].agent_name = n
                /\ \A c \in QuotaErrorIds : communications[c].agent_name \in r.affected_agents
                /\ Cardinality(r.affected_agents) <= r.total_quota_errors

\* Two quota errors of the same agent name are stored next to no other
\* Communication: the count is 2, the name is reported once, and the details
\* are those of the later one.
C28_Witness ==
    /\ last_call.op = "get_quota_exceeded_details"
    /\ Cardinality(DOMAIN communications) = 2
    /\ last_call.ret[1].has_quota_errors
    /\ last_call.ret[1].total_quota_errors = 2
    /\ Cardinality(last_call.ret[1].affected_agents) = 1
    /\ \A c \in DOMAIN communications :
          communications[c].session_start <= last_call.ret[1].latest_quota_error.timestamp

\* C29: every entry agent_id -> comm_id of the active-session index refers to
\* a Communication that is in the store, is still open (session_end unset)
\* and has that agent_id; so when no stored Communication is open, the index
\* is empty and get_stats reports active = 0.
C29_IndexRefersToOpenComm ==
    /\ \A a \in DOMAIN active_sessions :
          /\ active_sessions[a] \in DOMAIN communications
          /\ communications[active_sessions[a]].session_end = None
          /\ communications[active_sessions[a]].agent_id = a
    /\ (\A c \in DOMAIN communications : communications[c].session_end # None)
          => /\ DOMAIN active_sessions = {}
             /\ LET stats == GetStats(communications, active_sessions)
                IN "active" \in DOMAIN stats => stats.active = 0

\* The tracker calls that the wrapped call of thread t has made and that
\* have returned, by the place it has reached: one start, one add_message
\* for each message it has logged, one complete.
TrackerCallsOf(t) ==
    IF pc[t] = "start" THEN 0
    ELSE 1 + Len(sent[t]) + (IF pc[t] \in {"completed", "done"} THEN 1 ELSE 0)

\* Is the Communication that thread t started in the store and open?
StartedIsOpen(t) ==
    /\ my_comm[t] \in DOMAIN communications
    /\ communications[my_comm[t]].session_end = None

ErrorTypeOf(c) ==
    IF communications[c].error_type \in {None, Some("")}
    THEN "unknown" ELSE communications[c].error_type[1]

\* The completed Communications with a non-empty error_message and type t.
ErrorsOfType(t) ==
    {c \in DOMAIN communications :
        /\ communications[c].session_end # None
        /\ communications[c].error_message \notin {None, Some("")}
        /\ ErrorTypeOf(c) = t}

\* C31: for every error type t in the error_breakdown of get_stats, count is
\* the number of completed Communications with a non-empty error_message
\* whose error_type is t (unset counted under "unknown"), and latest_error
\* is the snapshot of one with the greatest session_start among them, also
\* when the sessions were started by concurrent callers.
C31_LatestErrorIsMostRecent ==
    (last_call.op = "get_stats" /\ "error_breakdown" \in DOMAIN last_call.ret[1]) =>
        LET breakdown == last_call.ret[1].error_breakdown
        IN /\ DOMAIN breakdown = {t \in {"unknown", "quota_exceeded"} : ErrorsOfType(t) # {}}
           /\ \A t \in DOMAIN breakdown :
                 /\ breakdown[t].count = Cardinality(ErrorsOfType(t))
                 /\ \E c \in ErrorsOfType(t) :
                       /\ \A d \in ErrorsOfType(t) :
                             communications[d].session_start
                                <= communications[c].session_start
                       /\ breakdown[t].latest_error =
                             [message |-> communications[c].error_message,
                              code |-> communications[c].error_code,
                              timestamp |-> communications[c].session_start,
                              agent |-> communications[c].agent_name]

\* C32: every Communication that the handler starts for a scenario's agent
\* is completed or removed by the time the request has finished, on the
\* success path as on the failure path, also when the wrapped agent made
\* tracked calls under the same agent_id in between: no Communication
\* started by a finished scenario is open in the store.
C32_ScenarioLeavesNothingOpen ==
    \A s \in Threads :
       pc[s] = "done"
       => (my_comm[s] \in DOMAIN communications
              => communications[my_comm[s]].session_end # None)

\* The requests whose assessment failed with an exception that the
\* classifier maps to quota_exceeded, and whose handler has finished.
QuotaFailedRequests ==
    {r \in Threads :
        /\ pc[r] = "done"
        /\ local[r][1].kind = "raise"
        /\ ParseOpenAIError(local[r][1].value)[2] = "quota_exceeded"}

\* C33: when an assessment run by a /comprehensive endpoint has failed with
\* an exception that the classifier maps to quota_exceeded, the tracker
\* retains the failure: a later get_quota_exceeded_details reports
\* has_quota_errors = true and counts that failure.
C33_QuotaFailureIsRetained ==
    (last_call.op = "get_quota_exceeded_details" /\ QuotaFailedRequests # {})
       => /\ last_call.ret[1].has_quota_errors
          /\ last_call.ret[1].total_quota_errors >= Cardinality(QuotaFailedRequests)

====
